---- MODULE Spec2Model ----
(***************************************************************************)
(* Unified product catalogue: ProductType-driven products with colour /    *)
(* version variants (unifiedProductController.js, UnifiedProduct.js,       *)
(* UnifiedVariant.js) and the legacy migration scripts.                    *)
(*                                                                         *)
(* Strings that the code transforms (model, slug, versionName, color,      *)
(* name) are sequences of one-token characters; strings the code only      *)
(* compares are TLA+ strings.                                              *)
(***************************************************************************)
EXTENDS Integers, Sequences, FiniteSets, TLC

\* ------------------------------------------------------------------------
\* Bounds of the model
\* ------------------------------------------------------------------------
\* number of HTTP request handlers that may run concurrently
NumHandlers == 2
\* total number of operations started in one behaviour: HTTP requests
\* accepted and migration scripts launched
MaxRequests == 3
\* upper limit of the quantity argument of the stock methods
MaxQty == 3
\* number of stock method calls in one behaviour
MaxStockCalls == 3
\* requests taken in one behaviour of the product type administration
MaxTypeRequests == 2
\* requests taken in one behaviour of the validation samples
MaxValidations == 2
\* requests taken in one behaviour of the expansion samples
MaxExpansions == 1
\* longest string handed to createSlug
MaxSlugInput == 3
\* number of times the operator runs migrateAllData.js in a row
MaxReruns == 2
\* createOrder requests taken in one behaviour
MaxOrders == 2

Handlers == 1..NumHandlers

\* ------------------------------------------------------------------------
\* JavaScript string helpers
\* ------------------------------------------------------------------------
\* "E'" stands for the precomposed letter e-acute, "'" for the combining
\* acute accent U+0301 that NFD normalisation splits off.
IsSpace(c) == c = " "
IsWordChar(c) == c \in {"a", "b", "e", "g", "A", "B", "1", "2", "_"}

toLowerCaseChar(c) == CASE c = "A" -> "a"
                        [] c = "B" -> "b"
                        [] OTHER -> c

RECURSIVE toLowerCase(_)
toLowerCase(s) ==
  IF s = << >> THEN << >> ELSE <<toLowerCaseChar(Head(s))>> \o toLowerCase(Tail(s))

\* String.prototype.normalize("NFD")
RECURSIVE normalizeNFD(_)
normalizeNFD(s) ==
  IF s = << >> THEN << >>
  ELSE (IF Head(s) = "E'" THEN <<"e", "'">> ELSE <<Head(s)>>) \o normalizeNFD(Tail(s))

\* .replace(/[\u0300-\u036f]/g, "")
RECURSIVE stripCombining(_)
stripCombining(s) ==
  IF s = << >> THEN << >>
  ELSE (IF Head(s) = "'" THEN << >> ELSE <<Head(s)>>) \o stripCombining(Tail(s))

\* .replace(/\s+/g, "-")
RECURSIVE spacesToHyphen(_)
spacesToHyphen(s) ==
  IF s = << >> THEN << >>
  ELSE IF IsSpace(Head(s))
       THEN IF Len(s) > 1 /\ IsSpace(s[2])
            THEN spacesToHyphen(Tail(s))
            ELSE <<"-">> \o spacesToHyphen(Tail(s))
       ELSE <<Head(s)>> \o spacesToHyphen(Tail(s))

\* .replace(/[^\w\-]+/g, "")
RECURSIVE stripNonWord(_)
stripNonWord(s) ==
  IF s = << >> THEN << >>
  ELSE (IF IsWordChar(Head(s)) \/ Head(s) = "-" THEN <<Head(s)>> ELSE << >>)
       \o stripNonWord(Tail(s))

\* .replace(/\-\-+/g, "-")
RECURSIVE collapseHyphens(_)
collapseHyphens(s) ==
  IF s = << >> THEN << >>
  ELSE IF Head(s) = "-" /\ Len(s) > 1 /\ s[2] = "-"
       THEN collapseHyphens(Tail(s))
       ELSE <<Head(s)>> \o collapseHyphens(Tail(s))

\* .replace(/^-+/, "")
RECURSIVE stripLeadingHyphens(_)
stripLeadingHyphens(s) ==
  IF s # << >> /\ Head(s) = "-" THEN stripLeadingHyphens(Tail(s)) ELSE s

\* .replace(/-+$/, "")
RECURSIVE stripTrailingHyphens(_)
stripTrailingHyphens(s) ==
  IF s # << >> /\ s[Len(s)] = "-"
  THEN stripTrailingHyphens(SubSeq(s, 1, Len(s) - 1)) ELSE s

\* a slug helper that trims the hyphens before it removes the other characters
createSlugTrimmingFirst(str) ==
  collapseHyphens(stripNonWord(spacesToHyphen(stripTrailingHyphens(
    stripLeadingHyphens(stripCombining(normalizeNFD(toLowerCase(str))))))))

\* createSlug of the unified product controller
createSlug(str) ==
  stripTrailingHyphens(stripLeadingHyphens(collapseHyphens(stripNonWord(
    spacesToHyphen(stripCombining(normalizeNFD(toLowerCase(str))))))))

\* String.prototype.trim()
RECURSIVE trimStart(_)
trimStart(s) == IF s # << >> /\ IsSpace(Head(s)) THEN trimStart(Tail(s)) ELSE s

RECURSIVE trimEnd(_)
trimEnd(s) ==
  IF s # << >> /\ IsSpace(s[Len(s)]) THEN trimEnd(SubSeq(s, 1, Len(s) - 1)) ELSE s

trim(s) == trimEnd(trimStart(s))

\* the "lowercase: true, trim: true" setters of a schema path
lowercaseTrim(s) == toLowerCase(trim(s))


\* ------------------------------------------------------------------------
\* State
\* ------------------------------------------------------------------------
VARIABLES
  productTypes,   \* ProductType collection (set of documents)
  products,       \* UnifiedProduct collection, committed documents
  variants,       \* UnifiedVariant collection, committed documents
  nextOid,        \* next ObjectId handed out by "new Model(...)"
  skuCounter,     \* state of the SKU allocator behind getNextSku()
  pc,             \* position of every request handler
  req,            \* the request a handler is serving
  local,          \* local variables of the running handler
  session,        \* uncommitted writes of the handler's transaction
  response,       \* last response a handler sent
  served,         \* number of requests accepted so far
  mig,            \* position of the migration scripts
  caller,         \* UnifiedVariant documents loaded by stock callers
  stockLog,       \* bookkeeping of the stock calls that succeeded
  Product,        \* Product collection of the order controller
  Order           \* Order collection

vars == <<productTypes, products, variants, nextOid, skuCounter, pc, req,
          local, session, response, served, mig, caller, stockLog, Product,
          Order>>

dbVars == <<products, variants>>

orderVars == <<Product, Order>>

\* ------------------------------------------------------------------------
\* Documents
\* ------------------------------------------------------------------------
Has(rec, f) == f \in DOMAIN rec

\* findById / findOne on a collection held as a set of documents
Exists(coll, id) == \E d \in coll : d._id = id
ById(coll, id) == CHOOSE d \in coll : d._id = id

\* the two seeded product types: 201 requires "chip", 202 has no fields
PT1 == 201
PT2 == 202
AdminId == 301

SeedProductTypes ==
  { [_id |-> PT1, name |-> <<"A">>, slug |-> <<"a">>,
     specificationFields |->
       << [name |-> "chip", type |-> "text", required |-> TRUE, options |-> << >>],
          [name |-> "os", type |-> "select", required |-> FALSE,
           options |-> <<"iOS">>] >>,
     status |-> "ACTIVE", createdBy |-> AdminId, version |-> 0],
    [_id |-> PT2, name |-> <<"B">>, slug |-> <<"b">>,
     specificationFields |-> << >>,
     status |-> "ACTIVE", createdBy |-> AdminId, version |-> 0] }

\* ------------------------------------------------------------------------
\* Specification validation (controller helper)
\* ------------------------------------------------------------------------
\* A specification value is a tagged JavaScript value:
\*   [k |-> "string", v |-> "A17"], [k |-> "number", v |-> 8],
\*   [k |-> "array", v |-> <<"a", "b">>]
NumericStrings == {"", "8"}

\* JavaScript truthiness of a specification value
Truthy(val) ==
  CASE val.k = "string" -> val.v # ""
    [] val.k = "number" -> val.v # 0
    [] OTHER -> TRUE

\* isNaN(Number(value))
IsNaNNumber(val) ==
  CASE val.k = "string" -> val.v \notin NumericStrings
    [] val.k = "number" -> FALSE
    [] val.k = "array" ->
         IF Len(val.v) = 0 THEN FALSE
         ELSE IF Len(val.v) = 1 THEN val.v[1] \notin NumericStrings
         ELSE TRUE
    [] OTHER -> TRUE

Includes(seq, x) == \E i \in 1..Len(seq) : seq[i] = x

\* specifications[field] is present and truthy
SpecTruthy(specifications, f) ==
  Has(specifications, f) /\ Truthy(specifications[f])

\* the per-field type check of the for loop; TRUE when the field passes
FieldTypeOk(field, specifications) ==
  IF ~SpecTruthy(specifications, field.name) /\ ~field.required THEN TRUE
  ELSE LET value == specifications[field.name] IN
       CASE field.type = "select" ->
              value.k = "string" /\ Includes(field.options, value.v)
         [] field.type = "multiselect" ->
              ~(value.k = "array"
                /\ \E i \in 1..Len(value.v) : ~Includes(field.options, value.v[i]))
         [] field.type = "number" -> ~IsNaNNumber(value)
         [] OTHER -> TRUE

\* a validator that never reports a missing required field
MissingRequiredIgnored(productType, specifications) == FALSE

\* some required field is absent or falsy (missingFields.length > 0)
MissingRequired(productType, specifications) ==
  \E i \in 1..Len(productType.specificationFields) :
     /\ productType.specificationFields[i].required
     /\ ~SpecTruthy(specifications, productType.specificationFields[i].name)

\* validateSpecifications: "ok" or the reason of the thrown error.
\* hasSpecs is FALSE when the specifications argument is undefined.
validateSpecifications(types, productTypeId, hasSpecs, specifications) ==
  IF ~Exists(types, productTypeId) THEN "no-product-type"
  ELSE LET productType == ById(types, productTypeId)
           fields == productType.specificationFields
       IN IF MissingRequired(productType, IF hasSpecs THEN specifications ELSE << >>)
          THEN "missing-required"
          ELSE IF ~hasSpecs /\ Len(fields) > 0 THEN "type-error"
          ELSE IF \E i \in 1..Len(fields) : ~FieldTypeOk(fields[i], specifications)
          THEN "invalid-field"
          ELSE "ok"


\* the messages of the errors validateSpecifications throws
ValidationErrors == {"no-product-type", "missing-required", "type-error", "invalid-field"}

\* missingFields: the required fields that are absent or falsy, in order
RECURSIVE missingFields(_, _)
missingFields(fields, specifications) ==
  IF fields = << >> THEN << >>
  ELSE (IF Head(fields).required /\ ~SpecTruthy(specifications, Head(fields).name)
        THEN <<Head(fields).name>> ELSE << >>)
       \o missingFields(Tail(fields), specifications)

\* the field names the message of the thrown error carries: every missing
\* required field, or else the field at which the for loop threw
ReportedFields(types, productTypeId, hasSpecs, specifications) ==
  LET v == validateSpecifications(types, productTypeId, hasSpecs, specifications)
      fields == ById(types, productTypeId).specificationFields
  IN CASE v = "missing-required" ->
            missingFields(fields, IF hasSpecs THEN specifications ELSE << >>)
       [] v = "type-error" -> <<fields[1].name>>
       [] v = "invalid-field" ->
            LET i == CHOOSE k \in 1..Len(fields) :
                       /\ ~FieldTypeOk(fields[k], specifications)
                       /\ \A j \in 1..(k - 1) : FieldTypeOk(fields[j], specifications)
            IN <<fields[i].name>>
       [] OTHER -> << >>

\* ------------------------------------------------------------------------
\* Variant expansion
\* ------------------------------------------------------------------------
\* Number(x) || 0 of an option attribute that may be absent
NumberOr0(opt, f) == IF Has(opt, f) THEN opt[f] ELSE 0

\* !opt.versionName?.trim()
BlankField(rec, f) == ~Has(rec, f) \/ trim(rec[f]) = << >>

\* the options of one group that the inner loop does not skip, in order
RECURSIVE ExpandOptions(_, _)
ExpandOptions(color, options) ==
  IF options = << >> THEN << >>
  ELSE LET opt == Head(options) IN
       (IF BlankField(opt, "versionName") THEN << >>
        ELSE << [color |-> trim(color),
                 versionName |-> trim(opt.versionName),
                 originalPrice |-> NumberOr0(opt, "originalPrice"),
                 price |-> NumberOr0(opt, "price"),
                 stock |-> NumberOr0(opt, "stock")] >>)
       \o ExpandOptions(color, Tail(options))

\* the variant records the two nested loops construct, in input order;
\* groups with a blank color or no options are skipped
RECURSIVE ExpandGroups(_)
ExpandGroups(variantGroups) ==
  IF variantGroups = << >> THEN << >>
  ELSE LET group == Head(variantGroups)
           options == IF Has(group, "options") THEN group.options ELSE << >>
       IN (IF BlankField(group, "color") \/ Len(options) = 0 THEN << >>
           ELSE ExpandOptions(group.color, options))
          \o ExpandGroups(Tail(variantGroups))

\* createVariants || variants || []
VariantGroupsOf(body) ==
  IF Has(body, "createVariants") THEN body.createVariants
  ELSE IF Has(body, "variants") THEN body.variants
  ELSE << >>

\* ------------------------------------------------------------------------
\* Sample request bodies
\* ------------------------------------------------------------------------
OptOk1 == [versionName |-> <<"1">>, originalPrice |-> 2, price |-> 1, stock |-> 1]
OptOk2 == [versionName |-> <<"2", " ">>, originalPrice |-> 2, price |-> 2, stock |-> 0]
OptBadPrice == [versionName |-> <<"2">>, originalPrice |-> 1, price |-> 2, stock |-> 1]
OptBlank == [versionName |-> <<" ">>, originalPrice |-> 2, price |-> 1, stock |-> 1]

GroupOne == [color |-> <<"g">>, options |-> <<OptOk1>>]
GroupTwo == [color |-> <<"b", " ">>, options |-> <<OptBlank, OptOk2>>]
GroupFailsSecond == [color |-> <<"g">>, options |-> <<OptOk1, OptBadPrice>>]
GroupBlankColor == [color |-> <<" ">>, options |-> <<OptOk1>>]
GroupNoOptions == [color |-> <<"g">>, options |-> << >>]

SpecsChip == [chip |-> [k |-> "string", v |-> "A17"]]
SpecsNoChip == [os |-> [k |-> "string", v |-> "iOS"]]

CreateBodies ==
  { [name |-> <<"A">>, model |-> <<"A", " ">>, productTypeId |-> PT2,
     createdBy |-> AdminId, variants |-> <<GroupOne>>],
    [name |-> <<"A">>, model |-> <<"A">>, productTypeId |-> PT1,
     createdBy |-> AdminId, specifications |-> SpecsChip,
     variants |-> <<GroupFailsSecond>>],
    [name |-> <<"B">>, model |-> <<"B">>, productTypeId |-> PT1,
     createdBy |-> AdminId, specifications |-> SpecsNoChip,
     variants |-> <<GroupOne>>],
    [name |-> <<"B">>, model |-> <<"B">>, productTypeId |-> PT1,
     createdBy |-> AdminId, specifications |-> SpecsChip,
     variants |-> <<GroupBlankColor, GroupTwo>>],
    [name |-> <<"B">>, model |-> <<"B">>, slug |-> <<"A">>, productTypeId |-> PT2,
     createdBy |-> AdminId],
    [name |-> <<" ">>, model |-> <<"B">>, productTypeId |-> PT2,
     createdBy |-> AdminId, variants |-> <<GroupOne>>] }

UpdateBodies ==
  { [variants |-> <<GroupTwo>>],
    [variants |-> << >>, status |-> "OUT_OF_STOCK"],
    [variants |-> <<GroupBlankColor, GroupNoOptions>>],
    [specifications |-> SpecsNoChip, variants |-> <<GroupTwo>>],
    [model |-> <<"B">>, slug |-> <<"e">>, brand |-> "Samsung"],
    [variants |-> <<GroupFailsSecond>>] }


\* ------------------------------------------------------------------------
\* Transactions (mongoose session) and the collection indexes
\* ------------------------------------------------------------------------
NoSession ==
  [putProducts |-> {}, delProducts |-> {}, putVariants |-> {}, delVariants |-> {}]

\* the collections as they are once the writes of handler r are applied
ApplyProducts(r) ==
  { d \in products : d._id \notin session[r].delProducts
                     /\ ~Exists(session[r].putProducts, d._id) }
  \cup session[r].putProducts

ApplyVariants(r) ==
  { d \in variants : d._id \notin session[r].delVariants } \cup session[r].putVariants

\* a handler that ran without a transaction: the writes made so far stay
abortKeepsWrites(r) ==
  /\ products' = ApplyProducts(r)
  /\ variants' = ApplyVariants(r)
  /\ session' = [session EXCEPT ![r] = NoSession]

\* session.abortTransaction(): every write made through the session is dropped
abortTransaction(r) ==
  /\ UNCHANGED dbVars
  /\ session' = [session EXCEPT ![r] = NoSession]

\* session.commitTransaction() after a last write `last` to the session
commitTransaction(r, last) ==
  LET s == [session EXCEPT ![r] = last] IN
  /\ products' = { d \in products : d._id \notin s[r].delProducts
                                    /\ ~Exists(s[r].putProducts, d._id) }
                 \cup s[r].putProducts
  /\ variants' = { d \in variants : d._id \notin s[r].delVariants }
                 \cup s[r].putVariants
  /\ session' = [session EXCEPT ![r] = NoSession]

\* another open transaction holds an uncommitted write on the product
ProductLockedByOther(r, id) ==
  \E o \in Handlers \ {r} :
     id \in session[o].delProducts \/ Exists(session[o].putProducts, id)

\* WriteConflict on a product document that handler r read as `seen`
ProductWriteConflict(r, seen) ==
  seen \notin products \/ ProductLockedByOther(r, seen._id)

\* WriteConflict on deleting the variants `ids` that handler r's snapshot holds
VariantsWriteConflict(r, ids) ==
  \/ \E id \in ids : ~Exists(variants, id)
  \/ \E o \in Handlers \ {r} : ids \cap session[o].delVariants # {}

\* an index that accepts every slug
SlugIndexAbsent(r, doc) == FALSE

\* unique sparse index on UnifiedProduct.slug
SlugIndexViolation(r, doc) ==
  /\ doc.slug # << >>
  /\ \/ \E d \in products : d._id # doc._id /\ d.slug = doc.slug
     \/ \E o \in Handlers \ {r} : \E d \in session[o].putProducts :
           d._id # doc._id /\ d.slug = doc.slug

\* an index that accepts every SKU
SkuIndexAbsent(r, doc) == FALSE

\* unique index on UnifiedVariant.sku
SkuIndexViolation(r, doc) ==
  \/ \E d \in (IF r \in Handlers THEN ApplyVariants(r) ELSE variants) :
        d._id # doc._id /\ d.sku = doc.sku
  \/ \E o \in Handlers \ {r} : \E d \in session[o].putVariants :
        d._id # doc._id /\ d.sku = doc.sku

ConditionEnum == {"NEW", "LIKE_NEW", "USED", "REFURBISHED"}
StatusEnum == {"AVAILABLE", "OUT_OF_STOCK", "DISCONTINUED", "COMING_SOON"}
InstallmentBadgeEnum == {"NONE", "0_PERCENT", "SPECIAL_OFFER"}

\* schema validation of a UnifiedProduct document
ProductValid(doc) ==
  /\ doc.name # << >>
  /\ doc.model # << >>
  /\ doc.baseSlug # << >>
  /\ doc.condition \in ConditionEnum
  /\ doc.status \in StatusEnum
  /\ doc.installmentBadge \in InstallmentBadgeEnum

\* pre("save") hook of UnifiedProduct: fill baseSlug and slug
ProductPreSave(doc) ==
  LET withBase == IF doc.baseSlug = << >> /\ doc.model # << >>
                  THEN [doc EXCEPT !.baseSlug = createSlug(doc.model)] ELSE doc
  IN IF withBase.slug = << >> THEN [withBase EXCEPT !.slug = withBase.baseSlug]
     ELSE withBase

\* schema validation of a UnifiedVariant document
VariantValid(doc) ==
  /\ doc.color # << >>
  /\ doc.versionName # << >>
  /\ doc.originalPrice >= 0
  /\ doc.price >= 0
  /\ doc.stock >= 0

\* a schema without the price hook
PriceCheckAbsent(doc) == FALSE

\* pre("save") hook of UnifiedVariant: price cannot exceed originalPrice
PriceCheckFails(doc) == doc.price > doc.originalPrice

\* the outcome of saving a new UnifiedVariant through handler r's session
VariantSaveError(r, doc) ==
  IF ~VariantValid(doc) THEN "validation"
  ELSE IF PriceCheckFails(doc) THEN "price"
  ELSE IF SkuIndexViolation(r, doc) THEN "duplicate-sku"
  ELSE "ok"

\* getNextSku(): the allocator hands out the next value of a shared counter
getNextSku(counter) == counter + 1

\* `${baseSlug}-${versionSlug}`
VariantSlug(baseSlug, versionName) == baseSlug \o <<"-">> \o createSlug(versionName)


\* ------------------------------------------------------------------------
\* Request handlers: common parts
\* ------------------------------------------------------------------------
NoRequest == [op |-> "none"]
NoLocal == << >>
NoResponse == [op |-> "none", status |-> 0]

\* the handlers are interchangeable: a request goes to the first idle one
FirstIdle(r) == pc[r] = "idle" /\ \A q \in Handlers : q < r => pc[q] # "idle"

\* the handler accepts a request
Accept(r, op, id, body) ==
  /\ FirstIdle(r)
  /\ served < MaxRequests
  /\ served' = served + 1
  /\ req' = [req EXCEPT ![r] = [op |-> op, id |-> id, body |-> body]]

\* res.status(status).json(...) ends the handler
Respond(r, op, status, data) ==
  /\ response' = [response EXCEPT
                    ![r] = [op |-> op, status |-> status, data |-> data]]
  /\ pc' = [pc EXCEPT ![r] = "idle"]
  /\ local' = [local EXCEPT ![r] = NoLocal]

\* what a response message says about a uniqueness collision
NoConflict == [field |-> "none"]

\* a message that never names a collision
MessageNamesNothing(err, slug, sku) == NoConflict

\* error.message: the Error thrown by the slug lookup carries the slug asked
\* for; the driver's E11000 message carries the index and its duplicate key
ErrorMessageConflict(err, slug, sku) ==
  CASE err = "slug-exists" -> [field |-> "slug", value |-> slug]
    [] err = "duplicate-slug" -> [field |-> "slug", value |-> lowercaseTrim(slug)]
    [] err = "duplicate-sku" -> [field |-> "sku", value |-> sku]
    [] OTHER -> NoConflict

\* the message of create's catch block: error.code === 11000 is answered
\* with the first key of error.keyPattern and its value in error.keyValue
CreateCatchConflict(err, slug, sku) ==
  CASE err = "duplicate-slug" -> [field |-> "slug", value |-> lowercaseTrim(slug)]
    [] err = "duplicate-sku" -> [field |-> "sku", value |-> sku]
    [] OTHER -> ErrorMessageConflict(err, slug, sku)

\* the message of the catch block of handler op
CatchConflict(op, err, slug, sku) ==
  IF op = "create" THEN CreateCatchConflict(err, slug, sku)
  ELSE ErrorMessageConflict(err, slug, sku)

\* the catch block of create, update and deleteProduct: the message is sent
\* with status 400; `fields` are the specification fields it names and
\* `conflict` the colliding field and value it names
CatchError(r, op, id, message, fields, conflict) ==
  /\ abortTransaction(r)
  /\ Respond(r, op, 400, [id |-> id, message |-> message, fields |-> fields,
                          conflict |-> conflict])

CatchNaming(r, op, id, message, fields) ==
  CatchError(r, op, id, message, fields, NoConflict)

Catch(r, op, id, message) == CatchNaming(r, op, id, message, << >>)

\* ------------------------------------------------------------------------
\* create
\* ------------------------------------------------------------------------
\* frontendSlug?.trim() || createSlug(productData.model.trim())
FinalSlug(body) ==
  IF Has(body, "slug") /\ trim(body.slug) # << >> THEN trim(body.slug)
  ELSE createSlug(trim(body.model))

\* findOne({ $or: [{ slug }, { baseSlug: slug }] }) with the filter cast by
\* the schema (lowercase, trim); `self` is excluded (0 excludes nothing)
SlugExists(coll, slug, self) ==
  \E d \in coll :
     /\ d._id # self
     /\ (d.slug = lowercaseTrim(slug) \/ d.baseSlug = lowercaseTrim(slug))

Default(body, f, dflt) == IF Has(body, f) THEN body[f] ELSE dflt

\* new UnifiedProduct({...}) with the schema setters applied
NewProduct(id, body, finalSlug) ==
  [_id |-> id,
   name |-> trim(body.name),
   model |-> trim(body.model),
   slug |-> lowercaseTrim(finalSlug),
   baseSlug |-> lowercaseTrim(finalSlug),
   description |-> trim(Default(body, "description", << >>)),
   productTypeId |-> body.productTypeId,
   specifications |-> Default(body, "specifications", << >>),
   condition |-> Default(body, "condition", "NEW"),
   brand |-> Default(body, "brand", "Apple"),
   status |-> Default(body, "status", "AVAILABLE"),
   installmentBadge |-> Default(body, "installmentBadge", "NONE"),
   videoUrl |-> trim(Default(body, "videoUrl", << >>)),
   variants |-> << >>,
   createdBy |-> body.createdBy,
   legacyCategory |-> "null",
   legacyId |-> 0]

\* steps 1 to 4: the error thrown before any variant is built, or "ok"
CreateError(r, body) ==
  IF BlankField(body, "name") THEN "name-required"
  ELSE IF BlankField(body, "model") THEN "model-required"
  ELSE IF ~Has(body, "productTypeId") THEN "product-type-required"
  ELSE IF ~Has(body, "createdBy") THEN "created-by-required"
  ELSE LET v == validateSpecifications(productTypes, body.productTypeId,
                                       Has(body, "specifications"),
                                       Default(body, "specifications", << >>))
       IN IF v # "ok" THEN v
          ELSE IF FinalSlug(body) = << >> THEN "no-slug"
          ELSE IF SlugExists(products, FinalSlug(body), 0) THEN "slug-exists"
          ELSE LET doc == NewProduct(nextOid, body, FinalSlug(body)) IN
               IF ~ProductValid(doc) THEN "validation"
               ELSE IF SlugIndexViolation(r, doc) THEN "duplicate-slug"
               ELSE "ok"

\* create, up to and including the first product.save({ session })
CreateBegin(r, body) ==
  /\ Accept(r, "create", 0, body)
  /\ LET err == CreateError(r, body)
         doc == ProductPreSave(NewProduct(nextOid, body, FinalSlug(body)))
     IN IF err # "ok"
        THEN /\ CatchError(r, "create", 0, err,
                         IF err \in ValidationErrors
                         THEN ReportedFields(productTypes, body.productTypeId,
                                             Has(body, "specifications"),
                                             Default(body, "specifications", << >>))
                         ELSE << >>,
                         CatchConflict("create", err, FinalSlug(body), 0))
             /\ UNCHANGED nextOid
        ELSE /\ nextOid' = nextOid + 1
             /\ session' = [session EXCEPT ![r].putProducts = {doc}]
             /\ local' = [local EXCEPT ![r] =
                   [product |-> doc,
                    baseSlug |-> FinalSlug(body),
                    hasGroups |-> Len(VariantGroupsOf(body)) > 0,
                    todo |-> ExpandGroups(VariantGroupsOf(body)),
                    ids |-> << >>]]
             /\ pc' = [pc EXCEPT ![r] = "createVariants"]
             /\ UNCHANGED <<dbVars, response>>
  /\ UNCHANGED <<productTypes, skuCounter, mig, caller, stockLog, orderVars>>

\* new UnifiedVariant({...}) for the next expanded option
NewVariant(id, productId, item, sku, baseSlug) ==
  [_id |-> id,
   productId |-> productId,
   color |-> item.color,
   versionName |-> item.versionName,
   originalPrice |-> item.originalPrice,
   price |-> item.price,
   stock |-> item.stock,
   sku |-> sku,
   slug |-> VariantSlug(baseSlug, item.versionName)]

\* an option loop that lists the newest variant first
SaveNextVariantPrepending(r, op) ==
  LET l == local[r]
      sku == getNextSku(skuCounter)
      doc == NewVariant(nextOid, l.product._id, Head(l.todo), sku, l.baseSlug)
      err == VariantSaveError(r, doc)
  IN /\ l.todo # << >>
     /\ skuCounter' = sku
     /\ nextOid' = nextOid + 1
     /\ IF err # "ok"
        THEN CatchError(r, op, l.product._id, err, << >>,
                        CatchConflict(op, err, << >>, sku))
        ELSE /\ session' = [session EXCEPT ![r].putVariants = @ \cup {doc}]
             /\ local' = [local EXCEPT ![r].todo = Tail(l.todo),
                                       ![r].ids = <<doc._id>> \o l.ids]
             /\ UNCHANGED <<dbVars, response, pc>>
     /\ UNCHANGED <<productTypes, req, served, mig, caller, stockLog, orderVars>>

\* one iteration of the option loop: getNextSku, build, save through the
\* session; a failed save is caught and aborts the transaction
SaveNextVariant(r, op) ==
  LET l == local[r]
      sku == getNextSku(skuCounter)
      doc == NewVariant(nextOid, l.product._id, Head(l.todo), sku, l.baseSlug)
      err == VariantSaveError(r, doc)
  IN /\ l.todo # << >>
     /\ skuCounter' = sku
     /\ nextOid' = nextOid + 1
     /\ IF err # "ok"
        THEN CatchError(r, op, l.product._id, err, << >>,
                        CatchConflict(op, err, << >>, sku))
        ELSE /\ session' = [session EXCEPT ![r].putVariants = @ \cup {doc}]
             /\ local' = [local EXCEPT ![r].todo = Tail(l.todo),
                                       ![r].ids = Append(l.ids, doc._id)]
             /\ UNCHANGED <<dbVars, response, pc>>
     /\ UNCHANGED <<productTypes, req, served, mig, caller, stockLog, orderVars>>

CreateVariant(r) ==
  /\ pc[r] = "createVariants"
  /\ SaveNextVariant(r, "create")

\* product.variants = createdVariantIds; save; commit; respond 201
CreateCommit(r) ==
  LET l == local[r]
      doc == IF l.hasGroups THEN [l.product EXCEPT !.variants = l.ids] ELSE l.product
  IN /\ pc[r] = "createVariants"
     /\ l.todo = << >>
     /\ commitTransaction(r, [session[r] EXCEPT !.putProducts = {doc}])
     /\ Respond(r, "create", 201, [id |-> doc._id])
     /\ UNCHANGED <<productTypes, nextOid, skuCounter, req, served, mig, caller,
                    stockLog, orderVars>>


\* ------------------------------------------------------------------------
\* update
\* ------------------------------------------------------------------------
\* a string attribute of the body that is present and not empty
Given(body, f) == Has(body, f) /\ body[f] # << >>

\* an enum attribute of the body that is present and truthy
GivenEnum(body, f) == Has(body, f) /\ body[f] # ""

\* step 1: the basic fields the handler copies from the body
ApplyBasicFields(product, data) ==
  [product EXCEPT
     !.name = IF Given(data, "name") THEN trim(data.name) ELSE @,
     !.description = IF Has(data, "description") THEN trim(data.description) ELSE @,
     !.condition = IF GivenEnum(data, "condition") THEN data.condition ELSE @,
     !.status = IF GivenEnum(data, "status") THEN data.status ELSE @,
     !.installmentBadge =
        IF GivenEnum(data, "installmentBadge") THEN data.installmentBadge ELSE @,
     !.videoUrl = IF Has(data, "videoUrl") THEN trim(data.videoUrl) ELSE @]

\* product.slug || product.baseSlug
CurrentSlug(product) == IF product.slug # << >> THEN product.slug ELSE product.baseSlug

\* step 2: the slug the update asks for
NewSlug(product, body) ==
  IF Given(body, "model") /\ trim(body.model) # product.model
  THEN createSlug(trim(body.model))
  ELSE IF Has(body, "slug") /\ trim(body.slug) # << >> THEN trim(body.slug)
  ELSE CurrentSlug(product)

\* slug, baseSlug and model are rewritten only when the slug changes
ApplySlug(product, body) ==
  IF NewSlug(product, body) # CurrentSlug(product)
  THEN [product EXCEPT
          !.slug = lowercaseTrim(NewSlug(product, body)),
          !.baseSlug = lowercaseTrim(NewSlug(product, body)),
          !.model = IF Has(body, "model") /\ trim(body.model) # << >>
                    THEN trim(body.model) ELSE @]
  ELSE product

ApplySpecifications(product, body) ==
  IF Has(body, "specifications")
  THEN [product EXCEPT !.specifications = body.specifications] ELSE product

\* the document as it stands at the first product.save({ session })
UpdatedProduct(product, body) ==
  ApplySpecifications(ApplySlug(ApplyBasicFields(product, body), body), body)

\* the error thrown up to the first save, or "ok"
UpdateError(r, id, body) ==
  IF ~Exists(products, id) THEN "not-found"
  ELSE LET product == ById(products, id)
           basic == ApplyBasicFields(product, body)
           doc == UpdatedProduct(product, body)
       IN IF NewSlug(basic, body) # CurrentSlug(basic)
             /\ SlugExists(products, NewSlug(basic, body), id)
          THEN "slug-exists"
          ELSE IF Has(body, "specifications")
                  /\ validateSpecifications(productTypes, product.productTypeId,
                                            TRUE, body.specifications) # "ok"
          THEN validateSpecifications(productTypes, product.productTypeId,
                                      TRUE, body.specifications)
          ELSE IF doc = product THEN "ok"
          ELSE IF ~ProductValid(doc) THEN "validation"
          ELSE IF SlugIndexViolation(r, doc) THEN "duplicate-slug"
          ELSE IF ProductWriteConflict(r, product) THEN "write-conflict"
          ELSE "ok"

\* update, up to and including the first product.save({ session })
UpdateBegin(r, id, body) ==
  /\ Accept(r, "update", id, body)
  /\ LET err == UpdateError(r, id, body)
         product == ById(products, id)
         doc == ProductPreSave(UpdatedProduct(product, body))
     IN IF err # "ok"
        THEN CatchError(r, "update", id, err,
                        IF err \in ValidationErrors
                        THEN ReportedFields(productTypes, product.productTypeId,
                                            TRUE, body.specifications)
                        ELSE << >>,
                        CatchConflict("update", err,
                                      NewSlug(ApplyBasicFields(product, body), body), 0))
        ELSE /\ session' = [session EXCEPT ![r].putProducts =
                               IF doc = product THEN {} ELSE {doc}]
             /\ local' = [local EXCEPT ![r] =
                   [seen |-> product,
                    product |-> doc,
                    baseSlug |-> IF doc.baseSlug # << >> THEN doc.baseSlug
                                 ELSE doc.slug,
                    hasGroups |-> Len(VariantGroupsOf(body)) > 0,
                    old |-> { v._id : v \in { w \in variants : w.productId = id } },
                    todo |-> ExpandGroups(VariantGroupsOf(body)),
                    ids |-> << >>]]
             /\ pc' = [pc EXCEPT ![r] =
                   IF Len(VariantGroupsOf(body)) > 0 THEN "updateDelete"
                   ELSE "updateCommit"]
             /\ UNCHANGED <<dbVars, response>>
  /\ UNCHANGED <<productTypes, nextOid, skuCounter, mig, caller, stockLog,
                 orderVars>>

\* UnifiedVariant.deleteMany({ productId: id }, { session })
UpdateDeleteMany(r) ==
  /\ pc[r] = "updateDelete"
  /\ IF VariantsWriteConflict(r, local[r].old)
     THEN Catch(r, "update", req[r].id, "write-conflict")
     ELSE /\ session' = [session EXCEPT ![r].delVariants = local[r].old]
          /\ pc' = [pc EXCEPT ![r] = "updateVariants"]
          /\ UNCHANGED <<dbVars, response, local>>
  /\ UNCHANGED <<productTypes, nextOid, skuCounter, req, served, mig, caller,
                 stockLog, orderVars>>

UpdateVariant(r) ==
  /\ pc[r] = "updateVariants"
  /\ SaveNextVariant(r, "update")

\* product.variants = newIds; save; commit; respond (with a variant payload)
\* or commit and respond straight after the first save (without one)
UpdateCommit(r) ==
  LET l == local[r]
      doc == IF l.hasGroups THEN [l.product EXCEPT !.variants = l.ids] ELSE l.product
      written == doc # l.seen
  IN /\ \/ pc[r] = "updateVariants" /\ l.todo = << >>
        \/ pc[r] = "updateCommit"
     /\ IF doc # l.product /\ ProductWriteConflict(r, l.seen)
        THEN Catch(r, "update", req[r].id, "write-conflict")
        ELSE /\ commitTransaction(r, [session[r] EXCEPT !.putProducts =
                                        IF written THEN {doc} ELSE {}])
             /\ Respond(r, "update", 200, [id |-> doc._id])
     /\ UNCHANGED <<productTypes, nextOid, skuCounter, req, served, mig, caller,
                    stockLog, orderVars>>

\* ------------------------------------------------------------------------
\* deleteProduct
\* ------------------------------------------------------------------------
\* a cascade that leaves the variants behind
DeleteManyNothing(coll, id) == {}

\* the documents deleteMany({ productId }) removes
DeleteManyByProduct(coll, id) == { v._id : v \in { w \in coll : w.productId = id } }

\* findById in the session, then deleteMany of the variants
DeleteBegin(r, id) ==
  /\ Accept(r, "delete", id, << >>)
  /\ IF ~Exists(products, id)
     THEN Catch(r, "delete", id, "not-found")
     ELSE IF VariantsWriteConflict(r, DeleteManyByProduct(variants, id))
     THEN Catch(r, "delete", id, "write-conflict")
     ELSE /\ session' = [session EXCEPT
                           ![r].delVariants = DeleteManyByProduct(variants, id)]
          /\ local' = [local EXCEPT ![r] = [seen |-> ById(products, id)]]
          /\ pc' = [pc EXCEPT ![r] = "deleteCommit"]
          /\ UNCHANGED <<dbVars, response>>
  /\ UNCHANGED <<productTypes, nextOid, skuCounter, mig, caller, stockLog,
                 orderVars>>

\* product.deleteOne({ session }); commit; respond
DeleteCommit(r) ==
  /\ pc[r] = "deleteCommit"
  /\ IF ProductWriteConflict(r, local[r].seen)
     THEN Catch(r, "delete", req[r].id, "write-conflict")
     ELSE /\ commitTransaction(r, [session[r] EXCEPT
                                     !.delProducts = {local[r].seen._id}])
          /\ Respond(r, "delete", 200, [id |-> req[r].id])
  /\ UNCHANGED <<productTypes, nextOid, skuCounter, req, served, mig, caller,
                 stockLog, orderVars>>


\* ------------------------------------------------------------------------
\* Read handlers: findOne and getProductDetail
\* ------------------------------------------------------------------------
\* populate("variants"): the referenced documents that exist, in list order
RECURSIVE Populate(_, _)
Populate(ids, coll) ==
  IF ids = << >> THEN << >>
  ELSE (IF Exists(coll, Head(ids)) THEN <<ById(coll, Head(ids))>> ELSE << >>)
       \o Populate(Tail(ids), coll)

\* findOne on a collection returns the first match in _id order
FirstMatch(matches) == CHOOSE d \in matches : \A e \in matches : d._id <= e._id

\* findOne: UnifiedProduct.findById(req.params.id)
FindOneBegin(r, id) ==
  /\ Accept(r, "findOne", id, << >>)
  /\ IF ~Exists(products, id)
     THEN /\ Respond(r, "findOne", 404, << >>)
     ELSE /\ local' = [local EXCEPT ![r] = [product |-> ById(products, id)]]
          /\ pc' = [pc EXCEPT ![r] = "findOnePopulate"]
          /\ UNCHANGED response
  /\ UNCHANGED <<productTypes, dbVars, nextOid, skuCounter, session, mig, caller,
                 stockLog, orderVars>>

\* findOne: the populate query and the response
FindOnePopulate(r) ==
  /\ pc[r] = "findOnePopulate"
  /\ Respond(r, "findOne", 200,
             [product |-> local[r].product,
              variants |-> Populate(local[r].product.variants, variants)])
  /\ UNCHANGED <<productTypes, dbVars, nextOid, skuCounter, session, req, served,
                 mig, caller, stockLog, orderVars>>

\* routeHandler: the route is "/:id", so req.params holds the path segment
\* under "id" and nothing else
routeParams(x) == [id |-> x]

\* what the server does with a filter key whose value is undefined: it sends
\* null, which matches the documents lacking the field, or, on a connection
\* opened with ignoreUndefined, it leaves the key out
UndefinedFilters == {"null", "ignore"}

\* find({ slug }) with const { slug } = req.params
FindBySlugParam(coll, params, mode) ==
  IF Has(params, "slug") THEN { d \in coll : d.slug = params.slug }
  ELSE IF mode = "ignore" THEN coll
  ELSE { d \in coll : d.slug = << >> }

\* find({ $or: [{ baseSlug: slug }, { slug: slug }] })
FindByBaseSlugParam(coll, params, mode) ==
  IF Has(params, "slug")
  THEN { d \in coll : d.baseSlug = params.slug \/ d.slug = params.slug }
  ELSE IF mode = "ignore" THEN coll
  ELSE { d \in coll : d.baseSlug = << >> \/ d.slug = << >> }

\* routeHandler passing a path segment that is no ObjectId to
\* getProductDetail: UnifiedVariant.findOne({ slug })
DetailBegin(r, x, skuQuery, mode) ==
  /\ Accept(r, "getProductDetail", 0,
            [params |-> routeParams(x), sku |-> skuQuery, mode |-> mode])
  /\ LET matches == FindBySlugParam(variants, routeParams(x), mode) IN
     local' = [local EXCEPT ![r] =
                 [found |-> matches # {},
                  variant |-> IF matches # {} THEN FirstMatch(matches) ELSE << >>]]
  /\ pc' = [pc EXCEPT ![r] = "detailProduct"]
  /\ UNCHANGED <<productTypes, dbVars, nextOid, skuCounter, session, response,
                 mig, caller, stockLog, orderVars>>

\* getProductDetail: the product query of either branch
DetailProduct(r) ==
  LET l == local[r]
      bySlug == FindByBaseSlugParam(products, req[r].body.params, req[r].body.mode)
      found == IF l.found THEN Exists(products, l.variant.productId)
               ELSE bySlug # {}
      product == IF l.found THEN ById(products, l.variant.productId)
                 ELSE FirstMatch(bySlug)
  IN /\ pc[r] = "detailProduct"
     /\ IF ~found
        THEN Respond(r, "getProductDetail", 404, << >>)
        ELSE /\ local' = [local EXCEPT ![r] =
                            [found |-> l.found, variant |-> l.variant,
                             product |-> product]]
             /\ pc' = [pc EXCEPT ![r] = "detailPopulate"]
             /\ UNCHANGED response
     /\ UNCHANGED <<productTypes, dbVars, nextOid, skuCounter, session, req,
                    served, mig, caller, stockLog, orderVars>>

\* variants.find((v) => v.stock > 0) || variants[0]
FirstInStock(populated) ==
  IF \E i \in 1..Len(populated) : populated[i].stock > 0
  THEN populated[CHOOSE i \in 1..Len(populated) :
                   /\ populated[i].stock > 0
                   /\ \A j \in 1..(i - 1) : populated[j].stock <= 0]
  ELSE populated[1]

\* getProductDetail: the populate query and the response of either branch
DetailPopulate(r) ==
  LET l == local[r]
      populated == Populate(l.product.variants, variants)
      skuQuery == req[r].body.sku
      bySku == { i \in 1..Len(populated) : populated[i].sku = skuQuery }
      selected == IF ~l.found THEN FirstInStock(populated)
                  ELSE IF skuQuery # 0 /\ bySku # {}
                  THEN populated[CHOOSE i \in bySku : \A j \in bySku : i <= j]
                  ELSE l.variant
  IN /\ pc[r] = "detailPopulate"
     /\ IF ~l.found /\ populated = << >>
        THEN Respond(r, "getProductDetail", 404, << >>)
        ELSE Respond(r, "getProductDetail", 200,
                     [product |-> l.product,
                      variants |-> populated,
                      redirect |-> ~l.found,
                      redirectSlug |-> IF l.found THEN << >> ELSE selected.slug,
                      redirectSku |-> IF l.found THEN 0 ELSE selected.sku,
                      selectedVariantSku |-> selected.sku])
     /\ UNCHANGED <<productTypes, dbVars, nextOid, skuCounter, session, req,
                    served, mig, caller, stockLog, orderVars>>


\* ------------------------------------------------------------------------
\* Legacy collections and the migration scripts
\* ------------------------------------------------------------------------
\* number of times the operator may run a migration script
MaxMigrationRuns == 1

\* the legacy products in the order migrateAllData.js visits them (IPhone
\* collection first, then Mac); the second one has no slug of its own
LegacyProducts ==
  << [_id |-> 101, category |-> "iPhone", typeSlug |-> <<"a">>,
      name |-> <<"A">>, model |-> <<"A">>, slug |-> <<"a">>, baseSlug |-> <<"a">>,
      createdBy |-> AdminId],
     [_id |-> 102, category |-> "Mac", typeSlug |-> <<"b">>,
      name |-> <<"B">>, model |-> <<"B">>, slug |-> << >>, baseSlug |-> <<"a">>,
      createdBy |-> AdminId] >>

\* the legacy variants; the IPhoneVariant and MacVariant collections each
\* keep their SKUs unique, but nothing relates one collection to the other;
\* the last one is priced above its original price
LegacyVariants ==
  << [_id |-> 111, productId |-> 101, color |-> <<"g">>, versionName |-> <<"1">>,
      originalPrice |-> 2, price |-> 1, stock |-> 1, sku |-> 901,
      slug |-> <<"a", "-", "g">>],
     [_id |-> 112, productId |-> 102, color |-> <<"g">>, versionName |-> <<"2">>,
      originalPrice |-> 2, price |-> 2, stock |-> 0, sku |-> 901,
      slug |-> << >>],
     [_id |-> 113, productId |-> 102, color |-> <<"b">>, versionName |-> <<"1">>,
      originalPrice |-> 1, price |-> 2, stock |-> 1, sku |-> 902,
      slug |-> << >>] >>

\* config.VariantModel.find({ productId }) as indexes into LegacyVariants
LegacyVariantsOf(productId) ==
  { k \in 1..Len(LegacyVariants) : LegacyVariants[k].productId = productId }

MigIdle ==
  [script |-> "none", i |-> 0, pending |-> {}, ids |-> << >>, id |-> 0,
   baseSlug |-> << >>, runs |-> 0]

\* the pre("save") slug hook of UnifiedVariant: only for a new document
\* without a slug whose product is found
hookVersionSlug(versionName) ==
  LET dashed == spacesToHyphen(toLowerCase(versionName)) IN
  SelectSeq(dashed, LAMBDA c : c \in {"a", "b", "e", "g", "1", "2", "-"})

VariantPreSave(doc) ==
  IF doc.slug = << >> /\ Exists(products, doc.productId)
     /\ ById(products, doc.productId).baseSlug # << >>
  THEN [doc EXCEPT !.slug = ById(products, doc.productId).baseSlug \o <<"-">>
                            \o hookVersionSlug(doc.versionName)]
  ELSE doc

\* node scripts/migrateAllData.js, node scripts/migrateVariants.js
MigrationStart(script) ==
  /\ mig.script = "none"
  /\ mig.runs < MaxMigrationRuns
  /\ served < MaxRequests
  /\ served' = served + 1
  /\ mig' = [mig EXCEPT !.script = script, !.i = 1]
  /\ UNCHANGED <<productTypes, dbVars, nextOid, skuCounter, pc, req, local,
                 session, response, caller, stockLog, orderVars>>

\* new UnifiedProduct({...}) of migrateCategory
MigratedProduct(id, old, productTypeId) ==
  [_id |-> id,
   name |-> trim(old.name),
   model |-> trim(IF old.model # << >> THEN old.model ELSE old.name),
   slug |-> lowercaseTrim(IF old.slug # << >> THEN old.slug
                          ELSE createSlug(IF old.model # << >> THEN old.model
                                          ELSE old.name)),
   baseSlug |-> lowercaseTrim(IF old.baseSlug # << >> THEN old.baseSlug
                              ELSE createSlug(IF old.model # << >> THEN old.model
                                              ELSE old.name)),
   description |-> << >>,
   productTypeId |-> productTypeId,
   specifications |-> << >>,
   condition |-> "NEW",
   brand |-> "Apple",
   status |-> "AVAILABLE",
   installmentBadge |-> "NONE",
   videoUrl |-> << >>,
   variants |-> << >>,
   createdBy |-> old.createdBy,
   legacyCategory |-> old.category,
   legacyId |-> old._id]

\* a product step that stores the document without looking for an earlier
\* copy of the legacy product or for a taken slug
MigrateProductUnchecked ==
  /\ mig.script = "all"
  /\ mig.pending = {} /\ mig.id = 0
  /\ mig.i <= Len(LegacyProducts)
  /\ LET old == LegacyProducts[mig.i]
         types == { t \in productTypes : t.slug = old.typeSlug }
         doc == ProductPreSave(MigratedProduct(nextOid, old,
                                               (CHOOSE t \in types : TRUE)._id))
     IN /\ types # {}
        /\ nextOid' = nextOid + 1
        /\ IF ~ProductValid(doc)
           THEN /\ mig' = [mig EXCEPT !.i = @ + 1]
                /\ UNCHANGED products
           ELSE /\ products' = products \cup {doc}
                /\ mig' = [mig EXCEPT !.id = doc._id,
                                      !.baseSlug = doc.baseSlug,
                                      !.pending = LegacyVariantsOf(old._id),
                                      !.ids = << >>]
  /\ UNCHANGED <<productTypes, variants, skuCounter, pc, req, local, session,
                 response, served, caller, stockLog, orderVars>>

\* migrateCategory: the already-migrated check and unifiedProduct.save()
MigrateProduct ==
  /\ mig.script = "all"
  /\ mig.pending = {} /\ mig.id = 0
  /\ mig.i <= Len(LegacyProducts)
  /\ LET old == LegacyProducts[mig.i]
         types == { t \in productTypes : t.slug = old.typeSlug }
         existing == \E d \in products :
                        d.legacyCategory = old.category /\ d.legacyId = old._id
         doc == ProductPreSave(MigratedProduct(nextOid, old,
                                               (CHOOSE t \in types : TRUE)._id))
     IN /\ types # {}
        /\ IF existing
           THEN /\ mig' = [mig EXCEPT !.i = @ + 1]
                /\ UNCHANGED <<products, nextOid>>
           ELSE /\ nextOid' = nextOid + 1
                /\ IF ~ProductValid(doc) \/ SlugIndexViolation(0, doc)
                   THEN /\ mig' = [mig EXCEPT !.i = @ + 1]
                        /\ UNCHANGED products
                   ELSE /\ products' = products \cup {doc}
                        /\ mig' = [mig EXCEPT !.id = doc._id,
                                              !.baseSlug = doc.baseSlug,
                                              !.pending = LegacyVariantsOf(old._id),
                                              !.ids = << >>]
  /\ UNCHANGED <<productTypes, variants, skuCounter, pc, req, local, session,
                 response, served, caller, stockLog, orderVars>>

\* new UnifiedVariant({...}) of a migration script
MigratedVariant(id, productId, old, slug) ==
  [_id |-> id,
   productId |-> productId,
   color |-> trim(old.color),
   versionName |-> trim(old.versionName),
   originalPrice |-> old.originalPrice,
   price |-> old.price,
   stock |-> old.stock,
   sku |-> old.sku,
   slug |-> slug]

\* migrateCategory: one iteration of the variant loop; an error is logged
MigrateVariant ==
  /\ mig.script = "all"
  /\ mig.pending # {}
  /\ LET k == CHOOSE x \in mig.pending : \A y \in mig.pending : x <= y
         old == LegacyVariants[k]
         doc == MigratedVariant(nextOid, mig.id, old,
                  IF old.slug # << >> THEN old.slug
                  ELSE VariantSlug(mig.baseSlug, old.versionName))
     IN /\ nextOid' = nextOid + 1
        /\ IF VariantSaveError(0, doc) # "ok"
           THEN /\ mig' = [mig EXCEPT !.pending = @ \ {k}]
                /\ UNCHANGED variants
           ELSE /\ variants' = variants \cup {doc}
                /\ mig' = [mig EXCEPT !.pending = @ \ {k},
                                      !.ids = Append(@, doc._id)]
  /\ UNCHANGED <<productTypes, products, skuCounter, pc, req, local, session,
                 response, served, caller, stockLog, orderVars>>

\* migrateCategory: unifiedProduct.variants = variantIds; save()
MigrateLink ==
  /\ mig.script = "all"
  /\ mig.pending = {} /\ mig.id # 0
  /\ ~ProductLockedByOther(0, mig.id)
  /\ products' = { IF d._id = mig.id THEN [d EXCEPT !.variants = mig.ids] ELSE d :
                   d \in products }
  /\ mig' = [mig EXCEPT !.i = @ + 1, !.id = 0, !.ids = << >>, !.baseSlug = << >>]
  /\ UNCHANGED <<productTypes, variants, nextOid, skuCounter, pc, req, local,
                 session, response, served, caller, stockLog, orderVars>>

\* migrateAllVariants: UnifiedVariant.create(newData) for one legacy variant,
\* with the legacy productId and slug copied as they are
MigrateVariantsStep ==
  /\ mig.script = "variants"
  /\ mig.i <= Len(LegacyVariants)
  /\ LET old == LegacyVariants[mig.i]
         doc == VariantPreSave(MigratedVariant(nextOid, old.productId, old, old.slug))
     IN /\ nextOid' = nextOid + 1
        /\ IF VariantSaveError(0, doc) # "ok"
           THEN UNCHANGED variants
           ELSE variants' = variants \cup {doc}
  /\ mig' = [mig EXCEPT !.i = @ + 1]
  /\ UNCHANGED <<productTypes, products, skuCounter, pc, req, local, session,
                 response, served, caller, stockLog, orderVars>>

\* the script has visited every legacy document and exits
MigrationEnd ==
  /\ \/ mig.script = "all" /\ mig.i > Len(LegacyProducts)
     \/ mig.script = "variants" /\ mig.i > Len(LegacyVariants)
  /\ mig' = [MigIdle EXCEPT !.runs = mig.runs + 1]
  /\ UNCHANGED <<productTypes, dbVars, nextOid, skuCounter, pc, req, local,
                 session, response, served, caller, stockLog, orderVars>>


\* ------------------------------------------------------------------------
\* Stock methods of UnifiedVariant, called on a loaded document
\* ------------------------------------------------------------------------
StockCallers == 1..2
NoDocument == << >>

\* UnifiedVariant.findById(id): the caller holds its own copy
StockLoad(c, id) ==
  /\ stockLog.calls < MaxStockCalls
  /\ Exists(variants, id)
  /\ caller[c] # ById(variants, id)
  /\ caller' = [caller EXCEPT ![c] = ById(variants, id)]
  /\ UNCHANGED <<productTypes, dbVars, nextOid, skuCounter, pc, req, local,
                 session, response, served, mig, stockLog, orderVars>>

\* this.save() of a loaded document whose stock was reassigned: the stored
\* document gets the new value of the modified path
SaveStock(doc) ==
  { IF d._id = doc._id THEN [d EXCEPT !.stock = doc.stock] ELSE d : d \in variants }

\* a guard that also refuses to sell the last items
InsufficientStockOffByOne(stock, quantity) == stock <= quantity

\* the guard of decrementStock
InsufficientStock(stock, quantity) == stock < quantity

\* a decrement that marks the product sold out when the variant runs out
DecrementStockMarkingSoldOut(c, quantity) ==
  LET this == caller[c]
      after == [this EXCEPT !.stock = @ - quantity]
      thrown == \/ InsufficientStock(this.stock, quantity)
                \/ ~VariantValid(after) \/ PriceCheckFails(after)
  IN /\ stockLog.calls < MaxStockCalls
     /\ this # NoDocument
     /\ IF thrown
        THEN UNCHANGED <<variants, caller, products>>
        ELSE /\ variants' = SaveStock(after)
             /\ caller' = [caller EXCEPT ![c] = after]
             /\ products' = { IF p._id = this.productId /\ after.stock = 0
                              THEN [p EXCEPT !.status = "OUT_OF_STOCK"] ELSE p :
                              p \in products }
     /\ stockLog' = [stockLog EXCEPT
                       !.calls = @ + 1,
                       !.decremented = IF thrown THEN @ ELSE @ + quantity,
                       !.last = [method |-> "decrementStock", caller |-> c,
                                 quantity |-> quantity, stock |-> this.stock,
                                 id |-> this._id, ok |-> ~thrown]]
     /\ UNCHANGED <<productTypes, nextOid, skuCounter, pc, req, local,
                    session, response, served, mig, orderVars>>

\* decrementStock(quantity)
DecrementStock(c, quantity) ==
  LET this == caller[c]
      after == [this EXCEPT !.stock = @ - quantity]
      thrown == \/ InsufficientStock(this.stock, quantity)
                \/ ~VariantValid(after) \/ PriceCheckFails(after)
  IN /\ stockLog.calls < MaxStockCalls
     /\ this # NoDocument
     /\ IF thrown
        THEN UNCHANGED <<variants, caller>>
        ELSE /\ variants' = SaveStock(after)
             /\ caller' = [caller EXCEPT ![c] = after]
     /\ stockLog' = [stockLog EXCEPT
                       !.calls = @ + 1,
                       !.decremented = IF thrown THEN @ ELSE @ + quantity,
                       !.last = [method |-> "decrementStock", caller |-> c,
                                 quantity |-> quantity, stock |-> this.stock,
                                 id |-> this._id, ok |-> ~thrown]]
     /\ UNCHANGED <<productTypes, products, nextOid, skuCounter, pc, req, local,
                    session, response, served, mig, orderVars>>

\* incrementStock(quantity)
IncrementStock(c, quantity) ==
  LET this == caller[c]
      after == [this EXCEPT !.stock = @ + quantity]
      thrown == ~VariantValid(after) \/ PriceCheckFails(after)
  IN /\ stockLog.calls < MaxStockCalls
     /\ this # NoDocument
     /\ IF thrown
        THEN UNCHANGED <<variants, caller>>
        ELSE /\ variants' = SaveStock(after)
             /\ caller' = [caller EXCEPT ![c] = after]
     /\ stockLog' = [stockLog EXCEPT
                       !.calls = @ + 1,
                       !.incremented = IF thrown THEN @ ELSE @ + quantity,
                       !.last = [method |-> "incrementStock", caller |-> c,
                                 quantity |-> quantity, stock |-> this.stock,
                                 id |-> this._id, ok |-> ~thrown]]
     /\ UNCHANGED <<productTypes, products, nextOid, skuCounter, pc, req, local,
                    session, response, served, mig, orderVars>>

\* ------------------------------------------------------------------------
\* Product types (productTypeController and the ProductType model)
\* ------------------------------------------------------------------------
\* new RegExp(`^${name.trim()}$`, "i") is built from the raw name, so "?"
\* in a name is a quantifier; a pattern that starts with one does not compile
RegexSyntaxError(pattern) == pattern # << >> /\ pattern[1] = "?"

\* one pattern character against one character under the flag "i"
AtomMatches(a, c) == toLowerCaseChar(a) = toLowerCaseChar(c)

\* /^pattern$/i.test(str): literal characters and the quantifier "?"
\* (a second "?" makes the quantifier lazy and matches the same strings)
RECURSIVE RegexTest(_, _)
RegexTest(pattern, str) ==
  IF pattern = << >> THEN str = << >>
  ELSE IF Len(pattern) >= 2 /\ pattern[2] = "?"
  THEN LET rest == SubSeq(pattern, 3, Len(pattern))
           after == IF rest # << >> /\ rest[1] = "?" THEN Tail(rest) ELSE rest
       IN \/ RegexTest(after, str)
          \/ /\ str # << >>
             /\ AtomMatches(pattern[1], str[1])
             /\ RegexTest(after, Tail(str))
  ELSE /\ str # << >>
       /\ AtomMatches(pattern[1], str[1])
       /\ RegexTest(Tail(pattern), Tail(str))

\* ProductType.findOne({ name: { $regex }, _id: { $ne: self } })
NameTaken(types, name, self) ==
  \E d \in types : d._id # self /\ RegexTest(trim(name), d.name)

\* the unique indexes on name and on slug compare the stored strings
TypeIndexViolation(types, doc) ==
  \E d \in types :
     /\ d._id # doc._id
     /\ (d.name = doc.name \/ (Has(doc, "slug") /\ d.slug = doc.slug))

FieldTypeEnum == {"text", "number", "select", "multiselect", "textarea"}

\* schema validation of a ProductType document: name and slug are required,
\* every field needs a name and a type of the enum
TypeValid(doc) ==
  /\ doc.name # << >>
  /\ Has(doc, "slug") /\ doc.slug # << >>
  /\ \A i \in 1..Len(doc.specificationFields) :
        /\ doc.specificationFields[i].name # ""
        /\ doc.specificationFields[i].type \in FieldTypeEnum

\* pre("save") hook of ProductType, which runs once validation has passed
typePreSave(doc) ==
  IF (~Has(doc, "slug") \/ trim(doc.slug) = << >>) /\ doc.name # << >>
  THEN [f \in DOMAIN doc \cup {"slug"} |->
          IF f = "slug" THEN createSlug(doc.name) ELSE doc[f]]
  ELSE doc

\* the document ProductType.create() is given by the controller: no slug
NewProductType(id, body) ==
  [_id |-> id,
   name |-> trim(body.name),
   specificationFields |-> Default(body, "specificationFields", << >>),
   status |-> "ACTIVE",
   createdBy |-> AdminId,
   version |-> 0]

\* a request to the product type administration is taken
TypeAccept(r, op, id, body) ==
  /\ served < MaxTypeRequests
  /\ Accept(r, op, id, body)

\* a response of the product type controller; it runs outside transactions
TypeRespond(r, op, status, id, message) ==
  /\ Respond(r, op, status, [id |-> id, message |-> message])
  /\ UNCHANGED session

\* create: name check, duplicate lookup, ProductType.create
TypeCreate(r, body) ==
  /\ TypeAccept(r, "typeCreate", 0, body)
  /\ LET doc == NewProductType(nextOid, body) IN
     IF BlankField(body, "name")
     THEN /\ TypeRespond(r, "typeCreate", 400, 0, "name-required")
          /\ UNCHANGED <<productTypes, nextOid>>
     ELSE IF RegexSyntaxError(trim(body.name))
     THEN /\ TypeRespond(r, "typeCreate", 500, 0, "regex")
          /\ UNCHANGED <<productTypes, nextOid>>
     ELSE IF NameTaken(productTypes, body.name, 0)
     THEN /\ TypeRespond(r, "typeCreate", 400, 0, "name-exists")
          /\ UNCHANGED <<productTypes, nextOid>>
     ELSE IF ~TypeValid(doc)
     THEN /\ TypeRespond(r, "typeCreate", 500, 0, "validation")
          /\ UNCHANGED <<productTypes, nextOid>>
     ELSE IF TypeIndexViolation(productTypes, typePreSave(doc))
     THEN /\ TypeRespond(r, "typeCreate", 500, 0, "duplicate-key")
          /\ UNCHANGED <<productTypes, nextOid>>
     ELSE /\ productTypes' = productTypes \cup {typePreSave(doc)}
          /\ nextOid' = nextOid + 1
          /\ TypeRespond(r, "typeCreate", 201, doc._id, "created")
  /\ UNCHANGED <<dbVars, skuCounter, mig, caller, stockLog, orderVars>>

\* name && name.trim() !== productType.name
NameChanges(productType, body) ==
  Has(body, "name") /\ body.name # << >> /\ trim(body.name) # productType.name

\* the loaded document after the assignments of update
UpdatedProductType(productType, body) ==
  [productType EXCEPT
     !.name = IF NameChanges(productType, body) THEN trim(body.name) ELSE @,
     !.specificationFields =
        IF Has(body, "specificationFields") THEN body.specificationFields ELSE @,
     !.status = IF Has(body, "status") /\ body.status # "" THEN body.status ELSE @]

\* update, up to the save: findById, duplicate lookup, assignments
TypeUpdateBegin(r, id, body) ==
  /\ TypeAccept(r, "typeUpdate", id, body)
  /\ IF ~Exists(productTypes, id)
     THEN TypeRespond(r, "typeUpdate", 404, id, "not-found")
     ELSE LET productType == ById(productTypes, id) IN
          IF NameChanges(productType, body) /\ RegexSyntaxError(trim(body.name))
          THEN TypeRespond(r, "typeUpdate", 500, id, "regex")
          ELSE IF NameChanges(productType, body)
                  /\ NameTaken(productTypes, body.name, id)
          THEN TypeRespond(r, "typeUpdate", 400, id, "name-exists")
          ELSE /\ local' = [local EXCEPT ![r] =
                     [seen |-> productType,
                      doc |-> UpdatedProductType(productType, body)]]
               /\ pc' = [pc EXCEPT ![r] = "typeUpdateSave"]
               /\ UNCHANGED <<response, session>>
  /\ UNCHANGED <<productTypes, dbVars, nextOid, skuCounter, mig, caller, stockLog,
                 orderVars>>

\* save() of a loaded ProductType: the modified paths are written onto the
\* stored document; an overwritten array is saved under the version the
\* document was loaded with and increments it
SaveProductType(types, seen, doc) ==
  { IF d._id = doc._id
    THEN [d EXCEPT
            !.name = IF doc.name # seen.name THEN doc.name ELSE @,
            !.specificationFields =
               IF doc.specificationFields # seen.specificationFields
               THEN doc.specificationFields ELSE @,
            !.status = IF doc.status # seen.status THEN doc.status ELSE @,
            !.version = IF doc.specificationFields # seen.specificationFields
                        THEN @ + 1 ELSE @]
    ELSE d : d \in types }

\* the error productType.save() throws, or "ok"
TypeSaveError(types, seen, doc) ==
  IF ~TypeValid(doc) THEN "validation"
  ELSE IF ~Exists(types, doc._id) THEN "document-not-found"
  ELSE IF doc.specificationFields # seen.specificationFields
          /\ ById(types, doc._id).version # seen.version
  THEN "version-error"
  ELSE IF TypeIndexViolation(types, doc) THEN "duplicate-key"
  ELSE "ok"

\* update: await productType.save() and the response
TypeUpdateSave(r) ==
  LET l == local[r]
      err == TypeSaveError(productTypes, l.seen, l.doc)
  IN /\ pc[r] = "typeUpdateSave"
     /\ IF err # "ok"
        THEN /\ TypeRespond(r, "typeUpdate", 500, l.doc._id, err)
             /\ UNCHANGED productTypes
        ELSE /\ productTypes' = SaveProductType(productTypes, l.seen, l.doc)
             /\ TypeRespond(r, "typeUpdate", 200, l.doc._id, "updated")
     /\ UNCHANGED <<dbVars, nextOid, skuCounter, req, served, mig, caller, stockLog,
                 orderVars>>

\* a count that finds no product
countNothing(coll, id) == 0

\* UnifiedProduct.countDocuments({ productTypeId: id })
countDocuments(coll, id) == Cardinality({ p \in coll : p.productTypeId = id })

\* deleteProductType, up to the deleteOne: findById and the usage count
TypeDeleteBegin(r, id) ==
  /\ TypeAccept(r, "typeDelete", id, << >>)
  /\ IF ~Exists(productTypes, id)
     THEN TypeRespond(r, "typeDelete", 404, id, "not-found")
     ELSE IF countDocuments(products, id) > 0
     THEN TypeRespond(r, "typeDelete", 400, id, "in-use")
     ELSE /\ local' = [local EXCEPT ![r] = [id |-> id]]
          /\ pc' = [pc EXCEPT ![r] = "typeDelete"]
          /\ UNCHANGED <<response, session>>
  /\ UNCHANGED <<productTypes, dbVars, nextOid, skuCounter, mig, caller, stockLog,
                 orderVars>>

\* deleteProductType: await productType.deleteOne() and the response
TypeDeleteCommit(r) ==
  /\ pc[r] = "typeDelete"
  /\ productTypes' = { d \in productTypes : d._id # local[r].id }
  /\ TypeRespond(r, "typeDelete", 200, local[r].id, "deleted")
  /\ UNCHANGED <<dbVars, nextOid, skuCounter, req, served, mig, caller, stockLog,
                 orderVars>>

\* specificationFields.find((f) => f.name === name)
HasField(productType, name) ==
  \E i \in 1..Len(productType.specificationFields) :
     productType.specificationFields[i].name = name

\* index of the first field with that name
FieldIndex(productType, name) ==
  CHOOSE i \in 1..Len(productType.specificationFields) :
     /\ productType.specificationFields[i].name = name
     /\ \A j \in 1..(i - 1) : productType.specificationFields[j].name # name

\* Object.assign(field, updates)
AssignField(field, updates) ==
  [f \in DOMAIN field |-> IF Has(updates, f) THEN updates[f] ELSE field[f]]

\* the loaded document after a field method has changed its array and the
\* outcome of the save() that follows
SaveFields(r, op, productType, fields) ==
  LET doc == [productType EXCEPT !.specificationFields = fields]
      err == TypeSaveError(productTypes, productType, doc)
  IN IF err # "ok"
     THEN /\ TypeRespond(r, op, 500, productType._id, err)
          /\ UNCHANGED productTypes
     ELSE /\ productTypes' = SaveProductType(productTypes, productType, doc)
          /\ TypeRespond(r, op, 200, productType._id, "saved")

\* addSpecificationField: duplicate check, push, save
AddSpecificationField(r, id, field) ==
  /\ TypeAccept(r, "addField", id, field)
  /\ IF ~Exists(productTypes, id)
     THEN /\ TypeRespond(r, "addField", 404, id, "not-found")
          /\ UNCHANGED productTypes
     ELSE LET productType == ById(productTypes, id) IN
          IF HasField(productType, field.name)
          THEN /\ TypeRespond(r, "addField", 400, id, "field-exists")
               /\ UNCHANGED productTypes
          ELSE SaveFields(r, "addField", productType,
                          Append(productType.specificationFields, field))
  /\ UNCHANGED <<dbVars, nextOid, skuCounter, mig, caller, stockLog, orderVars>>

\* updateSpecificationField: Object.assign on the first field of that name
UpdateSpecificationField(r, id, fieldName, updates) ==
  /\ TypeAccept(r, "updateField", id, [fieldName |-> fieldName, updates |-> updates])
  /\ IF ~Exists(productTypes, id)
     THEN /\ TypeRespond(r, "updateField", 404, id, "not-found")
          /\ UNCHANGED productTypes
     ELSE LET productType == ById(productTypes, id) IN
          IF ~HasField(productType, fieldName)
          THEN /\ TypeRespond(r, "updateField", 500, id, "field-not-found")
               /\ UNCHANGED productTypes
          ELSE LET i == FieldIndex(productType, fieldName) IN
               SaveFields(r, "updateField", productType,
                          [productType.specificationFields EXCEPT
                             ![i] = AssignField(@, updates)])
  /\ UNCHANGED <<dbVars, nextOid, skuCounter, mig, caller, stockLog, orderVars>>

\* specificationFields.filter((f) => f.name !== fieldName)
RECURSIVE WithoutField(_, _)
WithoutField(fields, fieldName) ==
  IF fields = << >> THEN << >>
  ELSE (IF Head(fields).name = fieldName THEN << >> ELSE <<Head(fields)>>)
       \o WithoutField(Tail(fields), fieldName)

\* removeSpecificationField: filter, save
RemoveSpecificationField(r, id, fieldName) ==
  /\ TypeAccept(r, "removeField", id, [fieldName |-> fieldName])
  /\ IF ~Exists(productTypes, id)
     THEN /\ TypeRespond(r, "removeField", 404, id, "not-found")
          /\ UNCHANGED productTypes
     ELSE LET productType == ById(productTypes, id) IN
          SaveFields(r, "removeField", productType,
                     WithoutField(productType.specificationFields, fieldName))
  /\ UNCHANGED <<dbVars, nextOid, skuCounter, mig, caller, stockLog, orderVars>>

\* ------------------------------------------------------------------------
\* Specifications
\* ------------------------------------------------------------------------
\* the ids a request may name: every stored product and one that is not stored
RequestIds == { d._id : d \in products } \cup {999}

NoStockLog ==
  [calls |-> 0, initial |-> 0, incremented |-> 0, decremented |-> 0,
   last |-> [method |-> "none"]]

Init ==
  /\ productTypes = SeedProductTypes
  /\ products = {}
  /\ variants = {}
  /\ nextOid = 1
  /\ skuCounter = 0
  /\ pc = [r \in Handlers |-> "idle"]
  /\ req = [r \in Handlers |-> NoRequest]
  /\ local = [r \in Handlers |-> NoLocal]
  /\ session = [r \in Handlers |-> NoSession]
  /\ response = [r \in Handlers |-> NoResponse]
  /\ served = 0
  /\ mig = MigIdle
  /\ caller = [c \in StockCallers |-> NoDocument]
  /\ stockLog = NoStockLog
  /\ Product = {}
  /\ Order = {}

ProductIds == { d._id : d \in products }

Next ==
  \/ \E r \in Handlers :
       \/ \E body \in CreateBodies : CreateBegin(r, body)
       \/ CreateVariant(r)
       \/ CreateCommit(r)
       \/ \E id \in RequestIds :
            \E body \in UpdateBodies : UpdateBegin(r, id, body)
       \/ UpdateDeleteMany(r)
       \/ UpdateVariant(r)
       \/ UpdateCommit(r)
       \/ \E id \in RequestIds : DeleteBegin(r, id)
       \/ DeleteCommit(r)
       \/ \E id \in RequestIds : FindOneBegin(r, id)
       \/ FindOnePopulate(r)

\* the request handlers alone
Spec == Init /\ [][Next]_vars

\* no expanded variant of the payload is priced above its original price
PricesOk(body) ==
  LET items == ExpandGroups(VariantGroupsOf(body)) IN
  \A i \in 1..Len(items) : items[i].price <= items[i].originalPrice

\* the sample requests that pass validation, which are the ones that write
\* next to the migration scripts
StorableCreateBodies ==
  { body \in CreateBodies :
      /\ ~BlankField(body, "name")
      /\ validateSpecifications(SeedProductTypes, body.productTypeId,
                                Has(body, "specifications"),
                                Default(body, "specifications", << >>)) = "ok"
      /\ PricesOk(body) }

StorableUpdateBodies ==
  { body \in UpdateBodies : ~Has(body, "specifications") /\ PricesOk(body) }

\* the migration scripts running next to product creates and updates
NextMigration ==
  \/ \E r \in Handlers :
       \/ \E body \in StorableCreateBodies : CreateBegin(r, body)
       \/ CreateVariant(r)
       \/ CreateCommit(r)
       \/ \E id \in ProductIds :
            \E body \in StorableUpdateBodies : UpdateBegin(r, id, body)
       \/ UpdateDeleteMany(r)
       \/ UpdateVariant(r)
       \/ UpdateCommit(r)
  \/ MigrationStart("all")
  \/ MigrationStart("variants")
  \/ MigrateProduct
  \/ MigrateVariant
  \/ MigrateLink
  \/ MigrateVariantsStep
  \/ MigrationEnd

SpecMigration == Init /\ [][NextMigration]_vars

\* a catalogue with one product and one variant for the stock callers
StockVariant(stock) ==
  [_id |-> 2, productId |-> 1, color |-> <<"g">>, versionName |-> <<"1">>,
   originalPrice |-> 2, price |-> 1, stock |-> stock, sku |-> 1,
   slug |-> <<"a", "-", "1">>]

StockProduct ==
  [NewProduct(1, [name |-> <<"A">>, model |-> <<"A">>, productTypeId |-> PT2,
                  createdBy |-> AdminId], <<"a">>) EXCEPT !.variants = <<2>>]

InitStock ==
  /\ productTypes = SeedProductTypes
  /\ products = {StockProduct}
  /\ \E stock \in 0..2 :
       /\ variants = {StockVariant(stock)}
       /\ stockLog = [NoStockLog EXCEPT !.initial = stock]
  /\ Product = {}
  /\ Order = {}
  /\ nextOid = 3
  /\ skuCounter = 1
  /\ pc = [r \in Handlers |-> "idle"]
  /\ req = [r \in Handlers |-> NoRequest]
  /\ local = [r \in Handlers |-> NoLocal]
  /\ session = [r \in Handlers |-> NoSession]
  /\ response = [r \in Handlers |-> NoResponse]
  /\ served = 0
  /\ mig = MigIdle
  /\ caller = [c \in StockCallers |-> NoDocument]

NextStock ==
  \E c \in StockCallers :
     \/ \E id \in { v._id : v \in variants } : StockLoad(c, id)
     \/ \E quantity \in 1..MaxQty : DecrementStock(c, quantity)
     \/ \E quantity \in 1..MaxQty : IncrementStock(c, quantity)

SpecStock == InitStock /\ [][NextStock]_vars

\* sample requests of the product type administration
FieldChip == [name |-> "chip", type |-> "text", required |-> TRUE, options |-> << >>]
FieldRam == [name |-> "ram", type |-> "number", required |-> TRUE, options |-> << >>]

TypeIds == {PT1, PT2}
TypeNames == { <<"a">>, <<"A", "?">>, <<"a", "?">>, <<"?">> }

TypeCreateBodies ==
  { [name |-> <<"a">>],
    [name |-> <<"e">>, specificationFields |-> <<FieldRam>>],
    [name |-> <<" ">>] }

TypeUpdateBodies ==
  { [name |-> n] : n \in TypeNames }
  \cup { [specificationFields |-> <<FieldChip, FieldChip>>],
         [specificationFields |-> <<FieldRam>>] }

FieldUpdates == { [name |-> "os"], [required |-> FALSE] }

\* a product of the second type, created without variants
TypeProductBodies ==
  { body \in CreateBodies :
      body.productTypeId = PT2 /\ VariantGroupsOf(body) = << >> }

\* a product is created while the product types are administered
TypeProductCreate(r, body) ==
  /\ served < MaxTypeRequests
  /\ CreateBegin(r, body)

\* the product type administration running next to product creates
NextTypes ==
  \E r \in Handlers :
     \/ \E body \in TypeCreateBodies : TypeCreate(r, body)
     \/ \E id \in TypeIds :
          \E body \in TypeUpdateBodies : TypeUpdateBegin(r, id, body)
     \/ TypeUpdateSave(r)
     \/ \E id \in TypeIds : TypeDeleteBegin(r, id)
     \/ TypeDeleteCommit(r)
     \/ \E id \in TypeIds : \E field \in {FieldChip, FieldRam} :
          AddSpecificationField(r, id, field)
     \/ \E id \in TypeIds : \E fieldName \in {"chip", "os"} :
          \E updates \in FieldUpdates :
             UpdateSpecificationField(r, id, fieldName, updates)
     \/ \E id \in TypeIds : RemoveSpecificationField(r, id, "chip")
     \/ \E body \in TypeProductBodies : TypeProductCreate(r, body)
     \/ CreateCommit(r)

SpecTypes == Init /\ [][NextTypes]_vars


\* product types an administrator can store next to the seeded ones: one
\* with a required number and an optional multiselect, one whose fields are
\* all optional
PT3 == 203
PT4 == 204

FieldTags ==
  [name |-> "tags", type |-> "multiselect", required |-> FALSE, options |-> <<"x">>]
FieldChipOptional ==
  [name |-> "chip", type |-> "text", required |-> FALSE, options |-> << >>]

ValidationTypes ==
  SeedProductTypes \cup
  { [_id |-> PT3, name |-> <<"e">>, slug |-> <<"e">>,
     specificationFields |-> <<FieldRam, FieldTags>>,
     status |-> "ACTIVE", createdBy |-> AdminId, version |-> 0],
    [_id |-> PT4, name |-> <<"g">>, slug |-> <<"g">>,
     specificationFields |-> <<FieldChipOptional>>,
     status |-> "ACTIVE", createdBy |-> AdminId, version |-> 0] }

StringValue(v) == [k |-> "string", v |-> v]
NumberValue(v) == [k |-> "number", v |-> v]
ArrayValue(v) == [k |-> "array", v |-> v]

\* sample values a request may carry for a field of each type
SampleValues(field) ==
  CASE field.type = "number" ->
         {StringValue("A17"), StringValue(""), StringValue("8"),
          NumberValue(0), NumberValue(8)}
    [] field.type = "select" ->
         {StringValue("iOS"), StringValue("x"), StringValue("")}
    [] field.type = "multiselect" ->
         {ArrayValue(<<"x">>), ArrayValue(<<"x", "y">>), StringValue("x")}
    [] OTHER -> {StringValue("A17"), StringValue(""), NumberValue(0)}

\* the specification maps over the fields of a product type
SpecificationMaps(productType) ==
  LET fields == productType.specificationFields
      names == { fields[i].name : i \in 1..Len(fields) }
      FieldOf(n) == fields[CHOOSE i \in 1..Len(fields) : fields[i].name = n]
      values == UNION { SampleValues(fields[i]) : i \in 1..Len(fields) }
  IN UNION { { m \in [S -> values] : \A n \in S : m[n] \in SampleValues(FieldOf(n)) }
             : S \in SUBSET names }

ValidationCreateBodies ==
  UNION { { [name |-> <<"A">>, model |-> <<"A">>, productTypeId |-> t._id,
             createdBy |-> AdminId, specifications |-> m]
            : m \in SpecificationMaps(t) }
          \cup { [name |-> <<"A">>, model |-> <<"A">>, productTypeId |-> t._id,
                  createdBy |-> AdminId] }
          : t \in ValidationTypes }

ValidationUpdateBodies ==
  { [specifications |-> m] : m \in SpecificationMaps(ById(ValidationTypes, PT3)) }

\* the stored product the updates are sent for
ValidatedProduct ==
  NewProduct(1, [name |-> <<"B">>, model |-> <<"B">>, productTypeId |-> PT3,
                 createdBy |-> AdminId,
                 specifications |-> [ram |-> NumberValue(8)]], <<"b">>)

InitValidation ==
  /\ productTypes = ValidationTypes
  /\ products = {ValidatedProduct}
  /\ variants = {}
  /\ nextOid = 2
  /\ skuCounter = 0
  /\ pc = [r \in Handlers |-> "idle"]
  /\ req = [r \in Handlers |-> NoRequest]
  /\ local = [r \in Handlers |-> NoLocal]
  /\ session = [r \in Handlers |-> NoSession]
  /\ response = [r \in Handlers |-> NoResponse]
  /\ served = 0
  /\ mig = MigIdle
  /\ caller = [c \in StockCallers |-> NoDocument]
  /\ stockLog = NoStockLog
  /\ Product = {}
  /\ Order = {}

\* create and update taken with a sample specification map
ValidatedCreate(r, body) ==
  /\ served < MaxValidations
  /\ CreateBegin(r, body)

ValidatedUpdate(r, id, body) ==
  /\ served < MaxValidations
  /\ UpdateBegin(r, id, body)

NextValidation ==
  \E r \in Handlers :
     \/ \E body \in ValidationCreateBodies : ValidatedCreate(r, body)
     \/ CreateCommit(r)
     \/ \E body \in ValidationUpdateBodies : ValidatedUpdate(r, 1, body)
     \/ UpdateCommit(r)

\* creates and updates whose specification maps range over the samples
SpecValidation == InitValidation /\ [][NextValidation]_vars


\* variant payloads of up to two groups for the expansion of create
GroupPair == [color |-> <<"g">>, options |-> <<OptOk1, OptOk2>>]

\* the option of the documented create-product example: a versionName, a
\* price and a stock, no originalPrice
OptDocumented == [versionName |-> <<"1">>, price |-> 1, stock |-> 1]
GroupDocumented == [color |-> <<"g">>, options |-> <<OptDocumented>>]

SampleGroups ==
  {GroupOne, GroupTwo, GroupPair, GroupBlankColor, GroupNoOptions, GroupDocumented}

GroupLists ==
  {<< >>} \cup { <<g>> : g \in SampleGroups }
          \cup { <<g, h>> : g \in SampleGroups, h \in SampleGroups }

ExpansionBodies ==
  { [name |-> <<"A">>, model |-> <<"A">>, productTypeId |-> PT2,
     createdBy |-> AdminId, variants |-> groups] : groups \in GroupLists }

\* a create taken with a sample variant payload
ExpansionCreate(r, body) ==
  /\ served < MaxExpansions
  /\ CreateBegin(r, body)

NextExpansion ==
  \E r \in Handlers :
     \/ \E body \in ExpansionBodies : ExpansionCreate(r, body)
     \/ CreateVariant(r)
     \/ CreateCommit(r)

\* creates whose variant payloads range over the sample group lists
SpecExpansion == Init /\ [][NextExpansion]_vars


\* a catalogue whose one variant was migrated with the SKU the allocator
\* hands out next
ConflictCreateBodies ==
  { [name |-> <<"e">>, model |-> <<"e">>, productTypeId |-> PT2,
     createdBy |-> AdminId, variants |-> <<GroupOne>>],
    [name |-> <<"B">>, model |-> <<"B">>, productTypeId |-> PT2,
     createdBy |-> AdminId] }

ConflictUpdateBodies == { [model |-> <<"B">>] }

ConflictProduct ==
  NewProduct(3, [name |-> <<"B">>, model |-> <<"B">>, productTypeId |-> PT2,
                 createdBy |-> AdminId], <<"b">>)

InitConflict ==
  /\ productTypes = SeedProductTypes
  /\ products = {StockProduct, ConflictProduct}
  /\ variants = {StockVariant(1)}
  /\ nextOid = 4
  /\ skuCounter = 0
  /\ pc = [r \in Handlers |-> "idle"]
  /\ req = [r \in Handlers |-> NoRequest]
  /\ local = [r \in Handlers |-> NoLocal]
  /\ session = [r \in Handlers |-> NoSession]
  /\ response = [r \in Handlers |-> NoResponse]
  /\ served = 0
  /\ mig = MigIdle
  /\ caller = [c \in StockCallers |-> NoDocument]
  /\ stockLog = NoStockLog
  /\ Product = {}
  /\ Order = {}

NextConflict ==
  \E r \in Handlers :
     \/ \E body \in ConflictCreateBodies : CreateBegin(r, body)
     \/ CreateVariant(r)
     \/ CreateCommit(r)
     \/ \E id \in ProductIds :
          \E body \in ConflictUpdateBodies : UpdateBegin(r, id, body)
     \/ UpdateCommit(r)

\* creates and updates that collide on slugs and on SKUs
SpecConflict == InitConflict /\ [][NextConflict]_vars


\* the characters of the strings handed to createSlug: letters of both
\* cases, a digit, the underscore, the hyphen, the space, a character outside
\* \w, a precomposed accented letter and a combining accent
SlugAlphabet == {"a", "A", "1", "_", "-", " ", "?", "E'", "'"}

SlugInputs == UNION { [1..n -> SlugAlphabet] : n \in 0..MaxSlugInput }

InitSlug ==
  /\ productTypes = SeedProductTypes
  /\ products = {}
  /\ variants = {}
  /\ nextOid = 1
  /\ skuCounter = 0
  /\ pc = [r \in Handlers |-> "idle"]
  /\ \E str \in SlugInputs :
       req = [r \in Handlers |-> [op |-> "createSlug", id |-> 0, body |-> str]]
  /\ local = [r \in Handlers |-> NoLocal]
  /\ session = [r \in Handlers |-> NoSession]
  /\ response = [r \in Handlers |-> NoResponse]
  /\ served = 0
  /\ mig = MigIdle
  /\ caller = [c \in StockCallers |-> NoDocument]
  /\ stockLog = NoStockLog
  /\ Product = {}
  /\ Order = {}

\* createSlug(str), the slug of the input
SlugOnce(r) ==
  /\ response[r] = NoResponse
  /\ response' = [response EXCEPT
                    ![r] = [op |-> "createSlug", status |-> 1,
                            data |-> createSlug(req[r].body)]]
  /\ UNCHANGED <<productTypes, dbVars, nextOid, skuCounter, pc, req, local,
                 session, served, mig, caller, stockLog, orderVars>>

\* createSlug(slug), the slug of a slug
SlugAgain(r) ==
  /\ response[r].op = "createSlug"
  /\ response[r].status = 1
  /\ response' = [response EXCEPT
                    ![r] = [op |-> "createSlug", status |-> 2,
                            data |-> createSlug(response[r].data)]]
  /\ UNCHANGED <<productTypes, dbVars, nextOid, skuCounter, pc, req, local,
                 session, served, mig, caller, stockLog, orderVars>>

NextSlug == \E r \in Handlers : SlugOnce(r) \/ SlugAgain(r)

\* createSlug applied to every short string, and to its own output
SpecSlug == InitSlug /\ [][NextSlug]_vars


\* the operator starts migrateAllData.js while no request is being handled
RerunStart ==
  /\ mig.script = "none"
  /\ mig.runs < MaxReruns
  /\ \A r \in Handlers : pc[r] = "idle"
  /\ mig' = [mig EXCEPT !.script = "all", !.i = 1]
  /\ UNCHANGED <<productTypes, dbVars, nextOid, skuCounter, pc, req, local,
                 session, response, served, caller, stockLog, orderVars>>

\* a create taken before the first migration run
RerunCreate(r, body) ==
  /\ mig = MigIdle
  /\ CreateBegin(r, body)

NextRerun ==
  \/ \E r \in Handlers :
       \/ \E body \in StorableCreateBodies : RerunCreate(r, body)
       \/ CreateVariant(r)
       \/ CreateCommit(r)
  \/ RerunStart
  \/ MigrateProduct
  \/ MigrateVariant
  \/ MigrateLink
  \/ MigrationEnd

\* migrateAllData.js run again and again over the same legacy collections,
\* on a catalogue the administrator filled before the first run
SpecRerun == Init /\ [][NextRerun]_vars


\* ------------------------------------------------------------------------
\* Order controller
\* ------------------------------------------------------------------------
\* createOrder: the request is taken; the loop starts at the first item
OrderBegin(r, items) ==
  /\ served < MaxOrders
  /\ Accept(r, "createOrder", 0, [items |-> items])
  /\ local' = [local EXCEPT ![r] = [todo |-> items, orderItems |-> << >>]]
  /\ pc' = [pc EXCEPT ![r] = "orderFind"]
  /\ UNCHANGED <<productTypes, dbVars, nextOid, skuCounter, session, response,
                 mig, caller, stockLog, orderVars>>

\* createOrder: Product.findById(item.productId), the two checks, and the
\* quantity taken off the loaded document
OrderFind(r) ==
  LET l == local[r]
      item == Head(l.todo)
      product == ById(Product, item.productId)
  IN /\ pc[r] = "orderFind"
     /\ IF ~Exists(Product, item.productId)
        THEN Respond(r, "createOrder", 404, [message |-> "not-found"])
        ELSE IF product.quantity < item.quantity
        THEN Respond(r, "createOrder", 400, [message |-> "insufficient"])
        ELSE /\ local' = [local EXCEPT ![r] =
                            [todo |-> l.todo,
                             orderItems |-> Append(l.orderItems,
                                              [productId |-> product._id,
                                               quantity |-> item.quantity,
                                               price |-> product.price]),
                             product |-> [product EXCEPT
                                            !.quantity = @ - item.quantity]]]
             /\ pc' = [pc EXCEPT ![r] = "orderSave"]
             /\ UNCHANGED response
     /\ UNCHANGED <<productTypes, dbVars, nextOid, skuCounter, session, req,
                    served, mig, caller, stockLog, orderVars>>

\* createOrder: product.save() writes the quantity of the loaded document
OrderSave(r) ==
  LET l == local[r] IN
  /\ pc[r] = "orderSave"
  /\ Product' = { IF d._id = l.product._id
                  THEN [d EXCEPT !.quantity = l.product.quantity] ELSE d :
                  d \in Product }
  /\ local' = [local EXCEPT ![r] =
                 [todo |-> Tail(l.todo), orderItems |-> l.orderItems]]
  /\ pc' = [pc EXCEPT ![r] = IF Tail(l.todo) = << >> THEN "orderCreate"
                             ELSE "orderFind"]
  /\ UNCHANGED <<productTypes, dbVars, nextOid, skuCounter, session, req,
                 response, served, mig, caller, stockLog, Order>>

\* createOrder: Order.create({...}) and the response
OrderCreate(r) ==
  /\ pc[r] = "orderCreate"
  /\ Order' = Order \cup {[_id |-> nextOid, items |-> local[r].orderItems]}
  /\ nextOid' = nextOid + 1
  /\ Respond(r, "createOrder", 201, [order |-> nextOid])
  /\ UNCHANGED <<productTypes, dbVars, skuCounter, session, req, served, mig,
                 caller, stockLog, Product>>

\* two products on sale
SeedProducts ==
  { [_id |-> 401, quantity |-> 2, price |-> 1],
    [_id |-> 402, quantity |-> 1, price |-> 2] }

\* sample carts: one item, an item that asks for more than is left after a
\* first item, an item of a product that does not exist after a first item
OrderItemLists ==
  { << [productId |-> 401, quantity |-> 1] >>,
    << [productId |-> 401, quantity |-> 2] >>,
    << [productId |-> 401, quantity |-> 1], [productId |-> 402, quantity |-> 2] >>,
    << [productId |-> 402, quantity |-> 1], [productId |-> 409, quantity |-> 1] >>,
    << [productId |-> 402, quantity |-> 1], [productId |-> 401, quantity |-> 1] >> }

InitOrder ==
  /\ productTypes = SeedProductTypes
  /\ products = {}
  /\ variants = {}
  /\ nextOid = 1
  /\ skuCounter = 0
  /\ pc = [r \in Handlers |-> "idle"]
  /\ req = [r \in Handlers |-> NoRequest]
  /\ local = [r \in Handlers |-> NoLocal]
  /\ session = [r \in Handlers |-> NoSession]
  /\ response = [r \in Handlers |-> NoResponse]
  /\ served = 0
  /\ mig = MigIdle
  /\ caller = [c \in StockCallers |-> NoDocument]
  /\ stockLog = NoStockLog
  /\ Product = SeedProducts
  /\ Order = {}

NextOrder ==
  \E r \in Handlers :
     \/ \E items \in OrderItemLists : OrderBegin(r, items)
     \/ OrderFind(r)
     \/ OrderSave(r)
     \/ OrderCreate(r)

\* createOrder requests on the two products
SpecOrder == InitOrder /\ [][NextOrder]_vars


\* the slug route next to deletes, on a catalogue of one product with one
\* variant
NextDetail ==
  \E r \in Handlers :
     \/ \E slug \in { v.slug : v \in variants } \cup { p.slug : p \in products } :
          \E sku \in {0} \cup { v.sku : v \in variants } :
             \E mode \in UndefinedFilters : DetailBegin(r, slug, sku, mode)
     \/ DetailProduct(r)
     \/ DetailPopulate(r)
     \/ \E id \in ProductIds : DeleteBegin(r, id)
     \/ DeleteCommit(r)

SpecDetail == InitStock /\ [][NextDetail]_vars


\* ------------------------------------------------------------------------
\* Properties
\* ------------------------------------------------------------------------
\* handler r sends its response in this step
Finishes(r) ==
  /\ pc'[r] = "idle"
  /\ \/ pc[r] # "idle"
     \/ FirstIdle(r) /\ served' # served /\ mig' = mig

SeqToSet(seq) == { seq[i] : i \in 1..Len(seq) }

\* the product `id` is stored in prods with exactly the variants `expected`,
\* in order, and vs holds no other variant of that product
AggregatePersisted(prods, vs, id, expected) ==
  /\ Exists(prods, id)
  /\ LET list == ById(prods, id).variants IN
     /\ Len(list) = Len(expected)
     /\ \A i \in 1..Len(list) :
          /\ Exists(vs, list[i])
          /\ LET v == ById(vs, list[i]) IN
             /\ v.productId = id
             /\ v.color = expected[i].color
             /\ v.versionName = expected[i].versionName
             /\ v.originalPrice = expected[i].originalPrice
             /\ v.price = expected[i].price
             /\ v.stock = expected[i].stock
     /\ { v._id : v \in { w \in vs : w.productId = id } } = SeqToSet(list)

\* neither the product `id` nor a variant of it is stored
NothingPersisted(prods, vs, id) ==
  /\ ~Exists(prods, id)
  /\ \A v \in vs : v.productId # id

\* the id of the product a running create has built
CreatedId(r) == IF pc[r] = "idle" THEN nextOid ELSE local[r].product._id

\* C1: when a create request finishes, the product, every variant expanded
\* from the payload and the product's variants list are all stored (and the
\* response is a success), or none of them is (and the response is a failure)
CreateAllOrNothing ==
  [][\A r \in Handlers :
       (Finishes(r) /\ req'[r].op = "create") =>
          LET expected == ExpandGroups(VariantGroupsOf(req'[r].body)) IN
          \/ /\ response'[r].status = 201
             /\ AggregatePersisted(products', variants', CreatedId(r), expected)
          \/ /\ response'[r].status = 400
             /\ NothingPersisted(products', variants', CreatedId(r))]_vars

\* a create that failed while saving its second variant
CreateFailedAtSecondVariant ==
  \E r \in Handlers :
     /\ response[r].op = "create"
     /\ response[r].status = 400
     /\ response[r].data.message = "price"
     /\ Len(ExpandGroups(VariantGroupsOf(req[r].body))) = 2
     /\ pc[r] = "idle"

\* the specifications of the request lack a field the product type requires
LacksRequiredField(types, productTypeId, specifications) ==
  /\ Exists(types, productTypeId)
  /\ \E i \in 1..Len(ById(types, productTypeId).specificationFields) :
       LET field == ById(types, productTypeId).specificationFields[i] IN
       field.required /\ field.name \notin DOMAIN specifications

\* the request handler r answers in this step is a create or an update of a
\* stored product whose specifications lack a required field
RequestLacksRequiredField(r) ==
  \/ /\ req'[r].op = "create"
     /\ Has(req'[r].body, "productTypeId")
     /\ LacksRequiredField(productTypes, req'[r].body.productTypeId,
                           Default(req'[r].body, "specifications", << >>))
  \/ /\ req'[r].op = "update"
     /\ Exists(products, req'[r].id)
     /\ Has(req'[r].body, "specifications")
     /\ LacksRequiredField(productTypes, ById(products, req'[r].id).productTypeId,
                           req'[r].body.specifications)

\* C2: a create or update whose specifications lack a required field of the
\* product's ProductType is rejected and leaves the stored products and
\* variants exactly as they were
MissingRequiredRejected ==
  [][\A r \in Handlers :
       (Finishes(r) /\ RequestLacksRequiredField(r)) =>
          /\ response'[r].status = 400
          /\ UNCHANGED dbVars]_vars

\* an update of a stored product with variants was rejected for a missing
\* required field
UpdateRejectedForMissingField ==
  \E r \in Handlers :
     /\ response[r].op = "update"
     /\ response[r].status = 400
     /\ response[r].data.message = "missing-required"
     /\ Exists(products, response[r].data.id)
     /\ ById(products, response[r].data.id).variants # << >>

\* C3: after a successful update that supplies a variant payload, the
\* variants of the product are exactly those expanded from the new payload
\* and no variant the product had before the update remains
UpdateReplacesVariants ==
  [][\A r \in Handlers :
       (/\ Finishes(r)
        /\ req'[r].op = "update"
        /\ response'[r].status = 200
        /\ (Has(req'[r].body, "variants") \/ Has(req'[r].body, "createVariants"))) =>
          /\ AggregatePersisted(products', variants', req'[r].id,
                                ExpandGroups(VariantGroupsOf(req'[r].body)))
          /\ \A v \in variants : v.productId = req'[r].id => v \notin variants']_vars

\* C4: after a successful delete neither the product nor a variant of it is
\* stored; a failed delete leaves the stored products and variants unchanged
DeleteCascades ==
  [][\A r \in Handlers :
       (Finishes(r) /\ req'[r].op = "delete") =>
          \/ /\ response'[r].status = 200
             /\ NothingPersisted(products', variants', req'[r].id)
          \/ /\ response'[r].status = 400
             /\ UNCHANGED dbVars]_vars

\* a product that was created with variants has been deleted
DeletedProductWithVariants ==
  \E r, q \in Handlers :
     /\ response[r].op = "delete"
     /\ response[r].status = 200
     /\ response[q].op = "create"
     /\ response[q].status = 201
     /\ response[q].data.id = response[r].data.id
     /\ ExpandGroups(VariantGroupsOf(req[q].body)) # << >>

\* C5: every stored variant's productId refers to a stored unified product
\* whose variants list contains the variant
VariantsOwnedByProduct ==
  \A v \in variants :
     \E p \in products :
        /\ p._id = v.productId
        /\ v._id \in SeqToSet(p.variants)

\* C6: the product and variants a read returns belong to one committed state
\* of the product (every variant the returned product lists is returned with
\* it), and the selectedVariantSku of getProductDetail is the SKU of one of
\* the returned variants
ReadsReturnWholeAggregate ==
  \A r \in Handlers :
     (response[r].op \in {"findOne", "getProductDetail"} /\ response[r].status = 200) =>
        LET data == response[r].data IN
        /\ Len(data.variants) = Len(data.product.variants)
        /\ \A i \in 1..Len(data.variants) :
             /\ data.variants[i]._id = data.product.variants[i]
             /\ data.variants[i].productId = data.product._id
        /\ response[r].op = "getProductDetail" =>
             \E i \in 1..Len(data.variants) :
                data.variants[i].sku = data.selectedVariantSku

\* C7: no two stored variants have the same SKU
SkuUnique ==
  \A v, w \in variants : v.sku = w.sku => v = w

\* both handlers have answered a create that expanded variants, and the
\* variants of both products are stored
TwoExpansionsStored ==
  /\ \A r \in Handlers :
        /\ response[r].op = "create"
        /\ response[r].status = 201
        /\ \E v \in variants : v.productId = response[r].data.id
  /\ \E r, q \in Handlers : response[r].data.id # response[q].data.id

\* C8: no two distinct products share a slug or baseSlug value
SlugsGloballyUnique ==
  \A a, b \in products :
     a # b => {a.slug, a.baseSlug} \cap {b.slug, b.baseSlug} = {}

\* C9: the stored stock of the variant is its initial stock plus all
\* successful increments minus all successful decrements, and is never
\* negative
StockIsSumOfMutations ==
  \A v \in variants :
     /\ v.stock = stockLog.initial + stockLog.incremented - stockLog.decremented
     /\ v.stock >= 0

\* C10: decrementStock(n) on a variant with stock s throws and leaves the
\* document and the stored variant unchanged when n > s, and otherwise
\* succeeds and leaves the stock of both equal to s - n
DecrementStockContract ==
  [][(stockLog'.calls # stockLog.calls /\ stockLog'.last.method = "decrementStock") =>
       LET c == stockLog'.last.caller
           s == caller[c].stock
           n == stockLog'.last.quantity
       IN IF n > s
          THEN /\ ~stockLog'.last.ok
               /\ caller'[c] = caller[c]
               /\ variants' = variants
          ELSE /\ stockLog'.last.ok
               /\ caller'[c].stock = s - n
               /\ ById(variants', caller[c]._id).stock = s - n]_vars

\* a decrement that took the whole stock has succeeded
DecrementedToZero ==
  /\ stockLog.last.method = "decrementStock"
  /\ stockLog.last.ok
  /\ stockLog.last.quantity = stockLog.last.stock
  /\ ById(variants, stockLog.last.id).stock = 0

\* the legacy variant the script is about to write is priced above its
\* original price
MigratesMispricedVariant ==
  \/ /\ mig.script = "all" /\ mig.pending # {}
     /\ LET k == CHOOSE x \in mig.pending : \A y \in mig.pending : x <= y IN
        LegacyVariants[k].price > LegacyVariants[k].originalPrice
  \/ /\ mig.script = "variants" /\ mig.i <= Len(LegacyVariants)
     /\ LegacyVariants[mig.i].price > LegacyVariants[mig.i].originalPrice

TakesDeleteOfReferencedType(r) ==
  /\ served' = served + 1
  /\ FirstIdle(r)
  /\ req'[r].op = "typeDelete"
  /\ Exists(productTypes, req'[r].id)
  /\ \E p \in products : p.productTypeId = req'[r].id

\* C12: a delete of a product type that at least one product references
\* fails (status 400), and it leaves the product types and the products as
\* they were.
ReferencedTypeNotDeleted ==
  [][\A r \in Handlers :
       TakesDeleteOfReferencedType(r)
         => /\ Finishes(r)
            /\ response'[r].op = "typeDelete"
            /\ response'[r].status = 400
            /\ productTypes' = productTypes
            /\ products' = products]_vars

\* a delete of a referenced product type has been refused and the type and
\* the product that references it are stored
DeleteOfReferencedTypeRefused ==
  \E r \in Handlers :
     /\ response[r].op = "typeDelete"
     /\ response[r].status = 400
     /\ Exists(productTypes, response[r].data.id)
     /\ \E p \in products : p.productTypeId = response[r].data.id

\* the product type a create or update request of handler r is validated
\* against (the request as taken in this step)
ValidatedTypeId(r) ==
  IF req'[r].op = "create" THEN req'[r].body.productTypeId
  ELSE ById(products, req'[r].id).productTypeId

\* handler r takes a create, or an update that carries specifications, and
\* the request gets as far as validateSpecifications
TakesValidatedRequest(r) ==
  /\ FirstIdle(r)
  /\ served' = served + 1
  /\ mig' = mig
  /\ \/ req'[r].op = "create"
     \/ /\ req'[r].op = "update"
        /\ Exists(products, req'[r].id)
        /\ Has(req'[r].body, "specifications")
  /\ Exists(productTypes, ValidatedTypeId(r))
  /\ ~(/\ Finishes(r)
       /\ response'[r].data.message \in
            {"name-required", "model-required", "product-type-required",
             "created-by-required"}
            \cup (IF req'[r].op = "update" THEN {"slug-exists"} ELSE {}))

\* the request taken in this step is answered with a validation error
RejectedByValidation(r) ==
  /\ Finishes(r)
  /\ response'[r].status = 400
  /\ response'[r].data.message \in ValidationErrors

\* the constraint a present value has to satisfy
ValueConforms(field, value) ==
  CASE field.type = "number" ->
         \/ value.k = "number"
         \/ value.k = "string" /\ value.v \in NumericStrings
    [] field.type = "select" ->
         value.k = "string" /\ Includes(field.options, value.v)
    [] field.type = "multiselect" ->
         /\ value.k = "array"
         /\ \A i \in 1..Len(value.v) : Includes(field.options, value.v[i])
    [] OTHER -> TRUE

\* every required field is present and every present field conforms
MapConforms(productType, body) ==
  \A i \in 1..Len(productType.specificationFields) :
     LET field == productType.specificationFields[i]
         present == Has(body, "specifications") /\ Has(body.specifications, field.name)
     IN /\ field.required => present
        /\ present => ValueConforms(field, body.specifications[field.name])

\* C13: validation on create and update accepts a specification map
\* (an absent map included) exactly when every required field is present
\* and every present field satisfies the constraint of its type.
ValidationAcceptsExactlyConformingMaps ==
  [][\A r \in Handlers :
       TakesValidatedRequest(r)
         => (RejectedByValidation(r)
               <=> ~MapConforms(ById(productTypes, ValidatedTypeId(r)),
                                req'[r].body))]_vars

\* the fields of the product type whose constraint the request violates
Violations(productType, body) ==
  { productType.specificationFields[i].name :
      i \in { j \in 1..Len(productType.specificationFields) :
                LET field == productType.specificationFields[j]
                    present == /\ Has(body, "specifications")
                               /\ Has(body.specifications, field.name)
                IN \/ field.required /\ ~present
                   \/ present /\ ~ValueConforms(field, body.specifications[field.name]) } }

\* C14: when a create or update is refused by validation and several
\* constraints are violated at once, the reported failure names every
\* violated field, not only the first.
ValidationReportsEveryViolation ==
  [][\A r \in Handlers :
       (/\ TakesValidatedRequest(r)
        /\ RejectedByValidation(r)
        /\ Cardinality(Violations(ById(productTypes, ValidatedTypeId(r)),
                                  req'[r].body)) >= 2)
         => Violations(ById(productTypes, ValidatedTypeId(r)), req'[r].body)
              \subseteq SeqToSet(response'[r].data.fields)]_vars

\* C15: the specification field names of every product type are pairwise
\* distinct, after type create, update with a specificationFields array,
\* add-field, update-field and remove-field.
FieldNamesDistinct ==
  \A t \in productTypes :
     \A i, j \in 1..Len(t.specificationFields) :
        i # j => t.specificationFields[i].name # t.specificationFields[j].name

\* C16: no two product types have names that are equal ignoring case,
\* after any sequence of type creates and updates.
TypeNamesDistinctIgnoringCase ==
  \A t, u \in productTypes :
     t._id # u._id => toLowerCase(t.name) # toLowerCase(u.name)

\* C17: the slug of every stored variant is the current baseSlug of its
\* product, "-" and slugify(versionName), whichever path created the
\* variant and after any later update of the product, a slug change
\* included.
VariantSlugFollowsBaseSlug ==
  \A v \in variants :
     \A p \in products :
        p._id = v.productId
          => v.slug = p.baseSlug \o <<"-">> \o createSlug(v.versionName)

\* the request carries an explicit slug
SlugSupplied(body) == Has(body, "slug") /\ trim(body.slug) # << >>

\* the slug the request asks for: the explicit slug as the schema stores
\* it (lowercased and trimmed) when one is supplied, otherwise slugify(model)
RequestedSlug(body) ==
  IF SlugSupplied(body) THEN lowercaseTrim(body.slug) ELSE createSlug(body.model)

\* handler r answers a create with 201 or an update with 200 in this step
\* and the product is stored
Succeeds(r, op) ==
  /\ Finishes(r)
  /\ response'[r].op = op
  /\ response'[r].status \in {200, 201}
  /\ Exists(products', response'[r].data.id)

\* C18: after a successful create, and after a successful update in which
\* model changed or an explicit slug was supplied, the product's slug and
\* baseSlug are equal, and equal to the explicit slug when one was supplied,
\* otherwise to slugify(model).
SlugIsRequestedSlug ==
  [][\A r \in Handlers :
       LET body == req[r].body
           p == ById(products', response'[r].data.id)
       IN (\/ Succeeds(r, "create")
           \/ /\ Succeeds(r, "update")
              /\ \/ SlugSupplied(body)
                 \/ /\ Given(body, "model")
                    /\ trim(body.model) # local[r].seen.model)
            => (p.slug = p.baseSlug /\ p.slug = RequestedSlug(body))]_vars

\* C19: after a successful update, every scalar attribute the request
\* supplied (name, model, description, condition, brand, status,
\* installmentBadge, videoUrl) has the supplied value in the stored product.
UpdateStoresSuppliedScalars ==
  [][\A r \in Handlers :
       Succeeds(r, "update")
         => LET p == ById(products', response'[r].data.id)
                body == req[r].body
            IN \A f \in {"name", "model", "description", "condition", "brand",
                         "status", "installmentBadge", "videoUrl"} :
                  Has(body, f) => p[f] = body[f]]_vars

\* the options of the payload that are kept: a non-blank version name in a
\* group with a non-blank color, as <<group index, option index>>
KeptOptions(groups) ==
  { <<g, o>> \in (1..Len(groups)) \X (1..2) :
      /\ ~BlankField(groups[g], "color")
      /\ Has(groups[g], "options")
      /\ o <= Len(groups[g].options)
      /\ ~BlankField(groups[g].options[o], "versionName") }

\* position of a kept option in input order: group order, then option order
InputRank(groups, pair) ==
  Cardinality({ q \in KeptOptions(groups) :
                  q[1] < pair[1] \/ (q[1] = pair[1] /\ q[2] <= pair[2]) })

\* C20: the variants a successful create stores are exactly one per option
\* with a non-blank versionName inside a group with a non-blank color and a
\* non-empty options list, and the product lists them in input order; blank
\* groups and options are skipped without failing the request.
CreateExpandsKeptOptionsInOrder ==
  [][\A r \in Handlers :
       Succeeds(r, "create")
         => LET p == ById(products', response'[r].data.id)
                groups == VariantGroupsOf(req[r].body)
                kept == KeptOptions(groups)
            IN /\ Len(p.variants) = Cardinality(kept)
               /\ Cardinality({ v \in variants' : v.productId = p._id })
                    = Cardinality(kept)
               /\ \A pair \in kept :
                     /\ Exists(variants', p.variants[InputRank(groups, pair)])
                     /\ LET v == ById(variants', p.variants[InputRank(groups, pair)])
                            opt == groups[pair[1]].options[pair[2]]
                        IN /\ v.productId = p._id
                           /\ v.color = trim(groups[pair[1]].color)
                           /\ v.versionName = trim(opt.versionName)
                           /\ v.price = NumberOr0(opt, "price")
                           /\ v.stock = NumberOr0(opt, "stock")]_vars

\* a create whose payload has a skipped option was answered 201 and the
\* product lists two variants
CreatedTwoVariantsSkippingBlank ==
  \E r \in Handlers :
     /\ response[r].op = "create"
     /\ response[r].status = 201
     /\ pc[r] = "idle"
     /\ Exists(products, response[r].data.id)
     /\ Len(ById(products, response[r].data.id).variants) = 2
     /\ LET groups == VariantGroupsOf(req[r].body) IN
        \E g \in 1..Len(groups) :
           \/ BlankField(groups[g], "color")
           \/ \E o \in 1..Len(groups[g].options) :
                 BlankField(groups[g].options[o], "versionName")

\* the messages of the failures caused by a duplicate slug or SKU
DuplicateErrors == {"slug-exists", "duplicate-slug", "duplicate-sku"}

\* field and value are those of a stored or pending document the request
\* collided with
NamesCollision(conflict) ==
  \/ /\ conflict.field = "slug"
     /\ \E d \in products \cup UNION { session[o].putProducts : o \in Handlers } :
           \/ d.slug = lowercaseTrim(conflict.value)
           \/ d.baseSlug = lowercaseTrim(conflict.value)
  \/ /\ conflict.field = "sku"
     /\ \E d \in variants \cup UNION { session[o].putVariants : o \in Handlers } :
           d.sku = conflict.value

DetailResolvesSlug ==
  [][\A r \in Handlers :
       (Finishes(r) /\ req[r].op = "getProductDetail" /\ req[r].body.sku = 0) =>
         LET x == req[r].body.params.id
             bySlug == { v \in variants : v.slug = x /\ Exists(products, v.productId) }
             owners == { p \in products : (p.slug = x \/ p.baseSlug = x)
                                          /\ p.variants # << >> }
             answer == response'[r]
         IN /\ bySlug # {} =>
                 /\ answer.status = 200
                 /\ ~answer.data.redirect
                 /\ \E v \in bySlug :
                       /\ answer.data.product._id = v.productId
                       /\ answer.data.selectedVariantSku = v.sku
            /\ (bySlug = {} /\ owners # {}) =>
                 /\ answer.status = 200
                 /\ answer.data.redirect
                 /\ \E p \in owners :
                      \E v \in variants :
                         /\ v.productId = p._id
                         /\ answer.data.redirectSlug = v.slug
                         /\ answer.data.redirectSku = v.sku]_vars

\* C23: the slug function is idempotent: the slug of a slug is that slug.
SlugIdempotent ==
  [][\A r \in Handlers :
       (response[r].op = "createSlug" /\ response'[r] # response[r]) =>
          response'[r].data = response[r].data]_vars

\* a string with spaces, capitals, an accent and a character outside \w has
\* been slugged twice
SlugOfSlugTaken ==
  \E r \in Handlers :
     /\ req[r].op = "createSlug"
     /\ req[r].body = <<"A", " ", "E'">>
     /\ response[r].status = 2
     /\ response[r].data = <<"a", "-", "e">>

\* ^[a-z0-9]+(-[a-z0-9]+)*$
IsLowerAlnum(c) == c \in {"a", "b", "e", "g", "1", "2"}

MatchesSlugPattern(str) ==
  /\ str # << >>
  /\ \A i \in 1..Len(str) : IsLowerAlnum(str[i]) \/ str[i] = "-"
  /\ str[1] # "-"
  /\ str[Len(str)] # "-"
  /\ \A i \in 1..(Len(str) - 1) : ~(str[i] = "-" /\ str[i + 1] = "-")

\* C24: the output of the slug function is empty or consists of groups of
\* lower-case ASCII letters and digits separated by single hyphens.
SlugMatchesPattern ==
  \A r \in Handlers :
     response[r].op = "createSlug" =>
        (response[r].data = << >> \/ MatchesSlugPattern(response[r].data))

\* the request carries one variant group whose one option gives a
\* versionName, a positive price and a stock but no originalPrice
DocumentedOption(body) ==
  /\ Len(VariantGroupsOf(body)) = 1
  /\ LET group == VariantGroupsOf(body)[1] IN
     /\ ~BlankField(group, "color")
     /\ Len(group.options) = 1
     /\ ~BlankField(group.options[1], "versionName")
     /\ ~Has(group.options[1], "originalPrice")
     /\ Has(group.options[1], "price") /\ group.options[1].price > 0
     /\ Has(group.options[1], "stock")

\* C25: a create on an empty catalogue whose variant option gives a
\* versionName, a positive price and a stock but no originalPrice succeeds
\* and stores that variant.
DocumentedCreateSucceeds ==
  [][\A r \in Handlers :
       (/\ Finishes(r)
        /\ req[r].op = "create"
        /\ DocumentedOption(req[r].body)
        /\ products = {})
         => /\ response'[r].status = 201
            /\ \E v \in variants' :
                  /\ v.versionName = trim(VariantGroupsOf(req[r].body)[1].options[1].versionName)
                  /\ v.price = VariantGroupsOf(req[r].body)[1].options[1].price]_vars

\* C26: the status of a stored product changes only in the step that ends
\* an update request supplying a status; no stock method changes it, so a
\* product whose every variant was decremented to stock 0 keeps its status.
StatusChangesOnlyByUpdate ==
  [][\A p \in products :
       \A q \in products' :
          (q._id = p._id /\ q.status # p.status) =>
             \E r \in Handlers :
                /\ req[r].op = "update"
                /\ req[r].id = p._id
                /\ Has(req[r].body, "status")
                /\ pc[r] # "idle"
                /\ pc'[r] = "idle"]_vars

\* decrementStock has taken the last items of the only variant of the
\* product, and the product is still AVAILABLE
SoldOutProductKeepsStatus ==
  /\ stockLog.decremented > 0
  /\ stockLog.last.method = "decrementStock"
  /\ stockLog.last.ok
  /\ \A v \in variants : v.productId = StockProduct._id => v.stock = 0
  /\ \E p \in products : p._id = StockProduct._id /\ p.status = "AVAILABLE"

\* C27: a run of the full migration that follows a finished run over the
\* same legacy data creates no unified product and no unified variant: the
\* unified collections stay what they were after the first run.
RerunAddsNothing ==
  [][(mig.script = "all" /\ mig.runs >= 1) =>
        (products' = products /\ variants' = variants)]_vars

\* the second run has finished on a catalogue that holds the first legacy
\* product with its variant
SecondRunFinished ==
  /\ mig.script = "none"
  /\ mig.runs >= 2
  /\ \E d \in products :
        /\ d.legacyId = LegacyProducts[1]._id
        /\ d.variants # << >>

\* C28: however a delete of a product type interleaves with the create of a
\* product of that type, once both requests are answered no stored product
\* refers to a product type that is not stored.
ProductsReferToStoredTypes ==
  (\A r \in Handlers : pc[r] = "idle") =>
     \A p \in products : Exists(productTypes, p.productTypeId)

\* C29: a createOrder request that is refused because a product of one of
\* its items does not exist or is short of quantity creates no order and
\* leaves the quantity of every product as it was before the request (here:
\* the only request taken so far).
RefusedOrderChangesNothing ==
  [][\A r \in Handlers :
       (/\ Finishes(r)
        /\ req[r].op = "createOrder"
        /\ served = 1
        /\ response'[r].status \in {400, 404})
         => (Order' = {} /\ Product' = SeedProducts)]_vars

\* quantity of product id in the items of one order
RECURSIVE QuantityIn(_, _)
QuantityIn(items, id) ==
  IF items = << >> THEN 0
  ELSE (IF Head(items).productId = id THEN Head(items).quantity ELSE 0)
       + QuantityIn(Tail(items), id)

\* quantity of product id in a set of orders
RECURSIVE Ordered(_, _)
Ordered(orders, id) ==
  IF orders = {} THEN 0
  ELSE LET o == CHOOSE x \in orders : TRUE IN
       QuantityIn(o.items, id) + Ordered(orders \ {o}, id)

\* C30: however concurrent createOrder requests interleave, once all of them
\* are answered with an order the quantity ordered of a product is at most
\* the quantity it had, and its quantity is what it had minus what was
\* ordered.
OrdersNeverOversell ==
  (/\ \A r \in Handlers : pc[r] = "idle"
   /\ Cardinality(Order) = served)
    => \A p \in SeedProducts :
          /\ Ordered(Order, p._id) <= p.quantity
          /\ ById(Product, p._id).quantity = p.quantity - Ordered(Order, p._id)
====
